---- MODULE Spec2Model ----
(***************************************************************************)
(* A model of mini_jsvmp: the single-pass compiler, the stack interpreter  *)
(* (runVM), the plain and the protected container (packToHex,              *)
(* packToHexHardened, runHexHardened) and the protected interpreter        *)
(* (runVMHardened).                                                        *)
(*                                                                         *)
(* Conventions.  A source text and every string of the program is a        *)
(* sequence of one-character strings.  Offsets, indices and addresses keep *)
(* the 0-based values of the code; a 0-based index i of a sequence s is    *)
(* read as s[i + 1].  A JavaScript number is modelled as an integer, NaN   *)
(* or +/-Infinity.  32-bit words are pairs [h, l] of 16-bit halves, so     *)
(* that products and sums wrap exactly as Math.imul and >>> 0 do.          *)
(***************************************************************************)
EXTENDS Integers, Sequences, FiniteSets, TLC

VARIABLES
  prog,       \* which source text is being processed
  builtins,   \* the hostBuiltins map handed to the interpreters
  phase,      \* position of the driver in the pipeline
  unit,       \* result of compile: [ok, err, code, consts, functions]
  vm,         \* state of runVM
  hex,        \* image written by packToHex
  unpacked,   \* result of unpackFromHex
  hhex,       \* image written by packToHexHardened, possibly tampered with
  packed,     \* the opcode map and seed drawn by packToHexHardened
  tampered,   \* how the protected image was altered after packing
  dec,        \* result of the decoding part of runHexHardened
  hvm,        \* state of runVMHardened
  constPool,  \* a ConstPool object: [pool, map]
  lastCall,   \* the last indexOf call on constPool: [n, v, i, before]
  physBytes,  \* the physBytes of the last makeOpcodeMap call, <<>> before the first
  macCall     \* the last pair of simpleMAC calls: [n, bytes, at, byte, tag, tagAt]

vars == <<prog, builtins, phase, unit, vm, hex, unpacked, hhex, packed, tampered, dec, hvm,
          constPool, lastCall, physBytes, macCall>>

-----------------------------------------------------------------------------
(* Instruction set *)

PUSH_CONST == 1
LOAD_VAR == 16
STORE_VAR == 17
ADD == 32
SUB == 33
MUL == 34
DIV == 35
EQ == 36
LT == 37
GT == 38
LE == 39
GE == 40
NE == 41
PRINT == 48
MAKE_CLOS == 64
CALL == 80
RET == 81
POP == 96
JUMP == 112
JUMP_IF_FALSE == 113
HALT == 255

LOGICAL_OPS ==
  << PUSH_CONST, LOAD_VAR, STORE_VAR, ADD, SUB, MUL, DIV,
     LT, GT, EQ, NE, LE, GE, PRINT, MAKE_CLOS, CALL,
     RET, POP, JUMP, JUMP_IF_FALSE, HALT >>

-----------------------------------------------------------------------------
(* Values *)

Num(n) == [t |-> "num", n |-> n]
NaNV == [t |-> "nan"]
InfV(sg) == [t |-> "inf", sg |-> sg]
StrV(s) == [t |-> "str", s |-> s]
BoolV(b) == [t |-> "bool", b |-> b]
UndefV == [t |-> "undef"]
HostV(name) == [t |-> "host", name |-> name]

IsNumeric(v) == v.t \in {"num", "nan", "inf"}

\* typeof v, as characters
TypeOf(v) ==
  CASE IsNumeric(v) -> <<"n","u","m","b","e","r">>
    [] v.t = "str" -> <<"s","t","r","i","n","g">>
    [] v.t = "bool" -> <<"b","o","o","l","e","a","n">>
    [] v.t = "undef" -> <<"u","n","d","e","f","i","n","e","d">>
    [] v.t = "host" -> <<"f","u","n","c","t","i","o","n">>
    [] v.t = "fn" -> <<"o","b","j","e","c","t">>

Digits == <<"0","1","2","3","4","5","6","7","8","9">>

IsDigitChar(c) == \E d \in 1..10 : Digits[d] = c

DigitVal(c) == (CHOOSE d \in 1..10 : Digits[d] = c) - 1

RECURSIVE NatToChars(_)
NatToChars(n) ==
  IF n < 10 THEN <<Digits[n + 1]>>
  ELSE NatToChars(n \div 10) \o <<Digits[(n % 10) + 1]>>

IntToChars(n) == IF n < 0 THEN <<"-">> \o NatToChars(-n) ELSE NatToChars(n)

\* String(v)
ToStr(v) ==
  CASE v.t = "num" -> IntToChars(v.n)
    [] v.t = "nan" -> <<"N","a","N">>
    [] v.t = "inf" -> IF v.sg < 0 THEN <<"-","I","n","f","i","n","i","t","y">>
                      ELSE <<"I","n","f","i","n","i","t","y">>
    [] v.t = "str" -> v.s
    [] v.t = "bool" -> IF v.b THEN <<"t","r","u","e">> ELSE <<"f","a","l","s","e">>
    [] v.t = "undef" -> <<"u","n","d","e","f","i","n","e","d">>
    [] v.t = "host" -> <<"f","u","n","c","t","i","o","n"," ">> \o v.name
                       \o <<"(",")"," ","{"," ","[","n","a","t","i","v","e"," ","c","o","d","e","]"," ","}">>
    [] v.t = "fn" -> <<"[","o","b","j","e","c","t"," ","O","b","j","e","c","t","]">>

\* a sequence of characters as one string (for messages)
RECURSIVE Text(_)
Text(cs) == IF cs = <<>> THEN "" ELSE Head(cs) \o Text(Tail(cs))

-----------------------------------------------------------------------------
(* Characters and their code units *)

\* the printable ASCII characters, from code 32 (the backquote is written out)
Printable ==
  << " ","!","\"","#","$","%","&","'","(",")","*","+",",","-",".","/","0","1","2","3","4",
     "5","6","7","8","9",":",";","<","=",">","?","@","A","B","C","D","E","F","G","H","I",
     "J","K","L","M","N","O","P","Q","R","S","T","U","V","W","X","Y","Z","[","\\","]","^",
     "_","<backquote>","a","b","c","d","e","f","g","h","i","j","k","l","m","n","o","p","q","r","s",
     "t","u","v","w","x","y","z","{","|","}","~" >>

\* the code unit of a character of the modelled alphabet
CharCode(c) ==
  CASE c = "\t" -> 9 [] c = "\n" -> 10 [] c = "\r" -> 13
    [] OTHER -> 31 + (CHOOSE i \in 1..Len(Printable) : Printable[i] = c)

\* the character of a code unit; "?" stands for one outside the alphabet
CodeChar(n) ==
  CASE n = 9 -> "\t" [] n = 10 -> "\n" [] n = 13 -> "\r"
    [] n >= 32 /\ n <= 126 -> Printable[n - 31]
    [] OTHER -> "?"

-----------------------------------------------------------------------------
(* ConstPool *)

NewConstPool == [pool |-> <<>>, map |-> <<>>]

PoolKey(v) == TypeOf(v) \o <<":">> \o ToStr(v)

\* the index map.get(key) returns; -1 when the map has no such key
MapGet(map, key) ==
  IF \E i \in 1..Len(map) : map[i].key = key
  THEN map[CHOOSE i \in 1..Len(map) : map[i].key = key].idx
  ELSE -1

IndexOfByText(cp, v) ==
  LET key == ToStr(v) IN
  IF MapGet(cp.map, key) # -1 THEN [cp |-> cp, i |-> MapGet(cp.map, key)]
  ELSE [cp |-> [pool |-> Append(cp.pool, v),
                map |-> Append(cp.map, [key |-> key, idx |-> Len(cp.pool)])],
        i |-> Len(cp.pool)]

\* [cp, i]: the pool after indexOf(v) and the index it returns
IndexOf(cp, v) ==
  LET key == PoolKey(v) IN
  IF MapGet(cp.map, key) # -1 THEN [cp |-> cp, i |-> MapGet(cp.map, key)]
  ELSE [cp |-> [pool |-> Append(cp.pool, v),
                map |-> Append(cp.map, [key |-> key, idx |-> Len(cp.pool)])],
        i |-> Len(cp.pool)]

-----------------------------------------------------------------------------
(* tokenize *)

NoErr == ""

WhiteSpace == {" ", "\t", "\n", "\r"}

IdStartChars ==
  {"a","b","c","d","e","f","g","h","i","j","k","l","m","n","o","p","q","r","s","t",
   "u","v","w","x","y","z","A","B","C","D","E","F","G","H","I","J","K","L","M","N",
   "O","P","Q","R","S","T","U","V","W","X","Y","Z","_","$"}

IsIdCharDotted(c) == c \in IdStartChars \/ IsDigitChar(c) \/ c = "."
IsIdChar(c) == c \in IdStartChars \/ IsDigitChar(c)

SingleCharTokens == {"(", ")", "+", "-", "*", "/", "=", "{", "}", ",", ";", "<", ">"}

Keywords ==
  { <<"l","e","t">>, <<"f","u","n","c","t","i","o","n">>, <<"r","e","t","u","r","n">>,
    <<"p","r","i","n","t">>, <<"i","f">>, <<"e","l","s","e">>, <<"w","h","i","l","e">> }

\* the 0-based position at which while (i < src.length && src[i] !== "\n") i++ stops
SkipLine(src, i) ==
  CHOOSE j \in i..Len(src) :
    /\ j = Len(src) \/ src[j + 1] = "\n"
    /\ \A k \in (i + 1)..j : src[k] # "\n"

\* the 0-based position at which while (j < src.length && isDigit(src[j])) j++ stops
SkipDigits(src, i) ==
  CHOOSE j \in i..Len(src) :
    /\ j = Len(src) \/ ~IsDigitChar(src[j + 1])
    /\ \A k \in (i + 1)..j : IsDigitChar(src[k])

\* the 0-based position at which while (j < src.length && isId(src[j])) j++ stops
SkipId(src, i) ==
  CHOOSE j \in i..Len(src) :
    /\ j = Len(src) \/ ~IsIdChar(src[j + 1])
    /\ \A k \in (i + 1)..j : IsIdChar(src[k])

\* Number(digits)
RECURSIVE DigitsToNat(_)
DigitsToNat(ds) ==
  IF ds = <<>> THEN 0
  ELSE 10 * DigitsToNat(SubSeq(ds, 1, Len(ds) - 1)) + DigitVal(ds[Len(ds)])

Unescape(c) ==
  CASE c = "n" -> "\n" [] c = "t" -> "\t" [] c = "r" -> "\r" [] OTHER -> c

\* one iteration of the loop over a string literal, on [j, str]
ScanChar(src, r) ==
  IF src[r.j + 1] = "\\" /\ r.j + 1 < Len(src)
  THEN [j |-> r.j + 2, str |-> Append(r.str, Unescape(src[r.j + 2]))]
  ELSE [j |-> r.j + 1, str |-> Append(r.str, src[r.j + 1])]

\* [j, str] after at most n more iterations of while (j < src.length && src[j] !== '"'),
\* the iterations taken half by half
RECURSIVE ScanString(_, _, _)
ScanString(src, r, n) ==
  IF n = 0 \/ r.j >= Len(src) \/ src[r.j + 1] = "\"" THEN r
  ELSE IF n = 1 THEN ScanChar(src, r)
  ELSE ScanString(src, ScanString(src, r, n \div 2), n - (n \div 2))

Slice(s, i, j) == SubSeq(s, i + 1, j)

\* one iteration of the loop of tokenize, on the scanner state [i, toks, err]
ScanToken(src, s) ==
  LET i == s.i
      c == src[i + 1]
      two == IF i + 1 < Len(src) THEN c \o src[i + 2] ELSE c
  IN
  CASE c \in WhiteSpace -> [s EXCEPT !.i = i + 1]
    [] c \notin WhiteSpace /\ two = "//" -> [s EXCEPT !.i = SkipLine(src, i)]
    [] c = "\"" ->
         LET r == ScanString(src, [j |-> i + 1, str |-> <<>>], Len(src)) IN
         IF r.j >= Len(src) THEN [s EXCEPT !.err = "Unterminated string"]
         ELSE [s EXCEPT !.i = r.j + 1, !.toks = Append(s.toks, [type |-> "str", v |-> r.str])]
    [] two \in {"==", "!=", "<=", ">="} ->
         [s EXCEPT !.i = i + 2, !.toks = Append(s.toks, [type |-> two, v |-> two])]
    [] two \notin {"==", "!=", "<=", ">=", "//"} /\ c \in SingleCharTokens ->
         [s EXCEPT !.i = i + 1, !.toks = Append(s.toks, [type |-> c, v |-> c])]
    [] IsDigitChar(c) ->
         LET j == SkipDigits(src, i) IN
         [s EXCEPT !.i = j,
                   !.toks = Append(s.toks, [type |-> "num", v |-> DigitsToNat(Slice(src, i, j))])]
    [] c \in IdStartChars ->
         LET j == SkipId(src, i)
             v == Slice(src, i, j)
         IN [s EXCEPT !.i = j,
                      !.toks = Append(s.toks, [type |-> IF v \in Keywords THEN Text(v) ELSE "id",
                                               v |-> v])]
    [] OTHER -> [s EXCEPT !.err = "Unexpected char " \o c]

\* the scanner state after at most n more iterations of while (i < src.length), the
\* iterations taken half by half
RECURSIVE TokenizeLoop(_, _, _)
TokenizeLoop(src, s, n) ==
  IF n = 0 \/ s.err # NoErr \/ s.i >= Len(src) THEN s
  ELSE IF n = 1 THEN ScanToken(src, s)
  ELSE TokenizeLoop(src, TokenizeLoop(src, s, n \div 2), n - (n \div 2))

\* every iteration consumes a character, so Len(src) iterations end the loop
tokenize(src) ==
  LET s == TokenizeLoop(src, [i |-> 0, toks |-> <<>>, err |-> NoErr], Len(src)) IN
  IF s.err # NoErr THEN [toks |-> s.toks, err |-> s.err]
  ELSE [toks |-> Append(s.toks, [type |-> "<eof>"]), err |-> NoErr]

-----------------------------------------------------------------------------
(* Operators of the host language on values *)

\* the string-to-number conversion, for optional blanks, an optional sign and digits
TrimLeft(s) == IF \E i \in 1..Len(s) : s[i] \notin WhiteSpace
               THEN SubSeq(s, CHOOSE i \in 1..Len(s) : s[i] \notin WhiteSpace
                                      /\ \A j \in 1..(i - 1) : s[j] \in WhiteSpace, Len(s))
               ELSE <<>>

TrimRight(s) == IF \E i \in 1..Len(s) : s[i] \notin WhiteSpace
                THEN SubSeq(s, 1, CHOOSE i \in 1..Len(s) : s[i] \notin WhiteSpace
                                      /\ \A j \in (i + 1)..Len(s) : s[j] \in WhiteSpace)
                ELSE <<>>

StrToNum(s) ==
  LET b == TrimRight(TrimLeft(s))
      signed == b # <<>> /\ b[1] \in {"-", "+"}
      ds == IF signed THEN Tail(b) ELSE b
  IN CASE b = <<>> -> Num(0)
       [] b # <<>> /\ ds # <<>> /\ (\A i \in 1..Len(ds) : IsDigitChar(ds[i])) ->
            Num(IF b[1] = "-" THEN 0 - DigitsToNat(ds) ELSE DigitsToNat(ds))
       [] b # <<>> /\ ds = <<"I","n","f","i","n","i","t","y">> ->
            InfV(IF b[1] = "-" THEN -1 ELSE 1)
       [] OTHER -> NaNV

IsObject(v) == v.t \in {"fn", "host"}

\* ToPrimitive: a closure record or a host function becomes its string
ToPrim(v) == IF IsObject(v) THEN StrV(ToStr(v)) ELSE v

\* ToNumber
ToNum(v) ==
  CASE IsNumeric(v) -> v
    [] v.t = "undef" -> NaNV
    [] v.t = "bool" -> Num(IF v.b THEN 1 ELSE 0)
    [] v.t = "str" -> StrToNum(v.s)
    [] IsObject(v) -> StrToNum(ToStr(v))

Sign(n) == IF n < 0 THEN -1 ELSE 1

NumNeg(a) ==
  CASE a.t = "num" -> Num(0 - a.n)
    [] a.t = "inf" -> InfV(0 - a.sg)
    [] a.t = "nan" -> NaNV

NumAdd(a, b) ==
  CASE a.t = "nan" \/ b.t = "nan" -> NaNV
    [] a.t = "inf" /\ b.t = "inf" -> IF a.sg = b.sg THEN a ELSE NaNV
    [] a.t = "inf" /\ b.t = "num" -> a
    [] a.t = "num" /\ b.t = "inf" -> b
    [] a.t = "num" /\ b.t = "num" -> Num(a.n + b.n)

NumMul(a, b) ==
  CASE a.t = "nan" \/ b.t = "nan" -> NaNV
    [] a.t = "inf" /\ b.t = "inf" -> InfV(a.sg * b.sg)
    [] a.t = "inf" /\ b.t = "num" -> IF b.n = 0 THEN NaNV ELSE InfV(a.sg * Sign(b.n))
    [] a.t = "num" /\ b.t = "inf" -> IF a.n = 0 THEN NaNV ELSE InfV(b.sg * Sign(a.n))
    [] a.t = "num" /\ b.t = "num" -> Num(a.n * b.n)

\* a / b; a quotient that is no integer is outside the modelled numbers
NumDiv(a, b) ==
  CASE a.t = "nan" \/ b.t = "nan" -> NaNV
    [] a.t = "inf" /\ b.t = "inf" -> NaNV
    [] a.t = "inf" /\ b.t = "num" -> InfV(a.sg * Sign(b.n))
    [] a.t = "num" /\ b.t = "inf" -> Num(0)
    [] a.t = "num" /\ b.t = "num" /\ b.n = 0 ->
         IF a.n = 0 THEN NaNV ELSE InfV(Sign(a.n))
    [] a.t = "num" /\ b.t = "num" /\ b.n # 0 /\ a.n % b.n = 0 ->
         Num(Sign(a.n) * Sign(b.n) * ((Sign(a.n) * a.n) \div (Sign(b.n) * b.n)))

\* a + b
JsAdd(a, b) ==
  LET pa == ToPrim(a)
      pb == ToPrim(b)
  IN IF pa.t = "str" \/ pb.t = "str" THEN StrV(ToStr(pa) \o ToStr(pb))
     ELSE NumAdd(ToNum(pa), ToNum(pb))

JsSub(a, b) == NumAdd(ToNum(a), NumNeg(ToNum(b)))
JsMul(a, b) == NumMul(ToNum(a), ToNum(b))
JsDiv(a, b) == NumDiv(ToNum(a), ToNum(b))

\* x < y on numbers: "lt", "ge", or "undef" when either is NaN
NumLess(a, b) ==
  CASE a.t = "nan" \/ b.t = "nan" -> "undef"
    [] a.t = "inf" /\ b.t = "inf" -> IF a.sg < b.sg THEN "lt" ELSE "ge"
    [] a.t = "inf" /\ b.t = "num" -> IF a.sg < 0 THEN "lt" ELSE "ge"
    [] a.t = "num" /\ b.t = "inf" -> IF b.sg > 0 THEN "lt" ELSE "ge"
    [] a.t = "num" /\ b.t = "num" -> IF a.n < b.n THEN "lt" ELSE "ge"

\* x < y on strings, by code units
RECURSIVE StrLess(_, _)
StrLess(x, y) ==
  IF y = <<>> THEN FALSE
  ELSE IF x = <<>> THEN TRUE
  ELSE IF CharCode(Head(x)) # CharCode(Head(y)) THEN CharCode(Head(x)) < CharCode(Head(y))
  ELSE StrLess(Tail(x), Tail(y))

\* the abstract relational comparison a < b: "lt", "ge" or "undef"
Less(a, b) ==
  LET pa == ToPrim(a)
      pb == ToPrim(b)
  IN IF pa.t = "str" /\ pb.t = "str" THEN (IF StrLess(pa.s, pb.s) THEN "lt" ELSE "ge")
     ELSE NumLess(ToNum(pa), ToNum(pb))

JsLt(a, b) == BoolV(Less(a, b) = "lt")
JsGt(a, b) == BoolV(Less(b, a) = "lt")
JsLe(a, b) == BoolV(Less(b, a) = "ge")
JsGe(a, b) == BoolV(Less(a, b) = "ge")

NumEq(a, b) ==
  CASE a.t = "nan" \/ b.t = "nan" -> FALSE
    [] OTHER -> a = b

\* a == b
LooseEq(a, b) ==
  CASE IsNumeric(a) /\ IsNumeric(b) -> NumEq(a, b)
    [] a.t = b.t /\ ~IsNumeric(a) -> a = b
    [] a.t = "undef" \/ b.t = "undef" -> FALSE
    [] OTHER ->
         \* a boolean becomes a number, an object its string, and a number and a
         \* string compare as numbers
         LET pa == IF a.t = "bool" THEN ToNum(a) ELSE ToPrim(a)
             pb == IF b.t = "bool" THEN ToNum(b) ELSE ToPrim(b)
         IN IF pa.t = "str" /\ pb.t = "str" THEN pa.s = pb.s
            ELSE NumEq(ToNum(pa), ToNum(pb))

JsEq(a, b) == BoolV(LooseEq(a, b))
JsNe(a, b) == BoolV(~LooseEq(a, b))

\* a truthiness in which only false and undefined fail the test
TruthyDefined(v) ==
  CASE v.t = "bool" -> v.b
    [] v.t = "undef" -> FALSE
    [] OTHER -> TRUE

\* !!v
Truthy(v) ==
  CASE v.t = "bool" -> v.b
    [] v.t = "num" -> v.n # 0
    [] v.t = "nan" -> FALSE
    [] v.t = "inf" -> TRUE
    [] v.t = "str" -> v.s # <<>>
    [] v.t = "undef" -> FALSE
    [] IsObject(v) -> TRUE

-----------------------------------------------------------------------------
(* compile: recursive descent, emitting bytecode as it parses.  A parser    *)
(* state is [toks, p, cp, code, functions, err]; a thrown Error is a state  *)
(* with err set, which every later step leaves as it is.                    *)

Failed(st) == st.err # NoErr

peek(st) == st.toks[st.p + 1]

Throw(st, msg) == [st EXCEPT !.err = msg]

eat(st, t) ==
  IF Failed(st) THEN st
  ELSE IF st.p >= Len(st.toks) \/ peek(st).type # t
       THEN Throw(st, "Expect " \o t \o ", got "
                      \o (IF st.p < Len(st.toks) THEN peek(st).type ELSE "<eof>"))
       ELSE [st EXCEPT !.p = st.p + 1]

emit(st, bs) == IF Failed(st) THEN st ELSE [st EXCEPT !.code = st.code \o bs]

\* emit(op, idx) for the pool and index r that cp.indexOf gave
emitIndex(st, op, r) == [st EXCEPT !.cp = r.cp, !.code = st.code \o <<op, r.i>>]

\* emit(op, cp.indexOf(v))
emitIndexed(st, op, v) == IF Failed(st) THEN st ELSE emitIndex(st, op, IndexOf(st.cp, v))

\* a back-patch that leaves the placeholder
patchNothing(st, jump) == st

\* code[jump + 1] = code.length, for the 0-based offset jump of a jump opcode
patchHere(st, jump) ==
  IF Failed(st) THEN st ELSE [st EXCEPT !.code[(jump + 1) + 1] = Len(st.code)]

(* The parser is the recursive descent of the source, run as its call stack: the state  *)
(* carries in k the calls in progress, innermost last.  A frame [f, a, b] names the     *)
(* function that is called (parseStmt) or the point at which a function continues      *)
(* after a call it made (parseIfThen: parseIf after its condition), with the locals it *)
(* still needs there.                                                                  *)

Frame(f, a, b) == [f |-> f, a |-> a, b |-> b]
Enter(f) == Frame(f, 0, 0)

\* the calls of frames, the last of them first
Call(st, frames) == IF Failed(st) THEN st ELSE [st EXCEPT !.k = st.k \o frames]

parseProgram(st) ==
  IF peek(st).type # "<eof>" THEN Call(st, <<Enter("parseProgram"), Enter("parseStmt")>>)
  ELSE emit(st, <<HALT>>)

\* parseLet up to parseExpr()
parseLet(st) ==
  Call(eat(eat(eat(st, "let"), "id"), "="),
       <<Frame("parseLetEnd", peek(eat(st, "let")).v, 0), Enter("parseExpr")>>)

\* idx = cp.indexOf(name); emit(OP.STORE_VAR, idx); eat(';')
parseLetEnd(st, name) == eat(emitIndexed(st, STORE_VAR, StrV(name)), ";")

parsePrint(st) ==
  Call(eat(eat(st, "print"), "("), <<Enter("parsePrintEnd"), Enter("parseExpr")>>)

parsePrintEnd(st) == eat(emit(eat(st, ")"), <<PRINT>>), ";")

\* parseReturn after eat('return')
parseReturnValue(s1) ==
  IF Failed(s1) THEN s1
  ELSE IF peek(s1).type # ";" THEN Call(s1, <<Enter("parseReturnEnd"), Enter("parseExpr")>>)
  ELSE Call(emitIndexed(s1, PUSH_CONST, UndefV), <<Enter("parseReturnEnd")>>)

parseReturn(st) == parseReturnValue(eat(st, "return"))

parseReturnEnd(st) == eat(emit(st, <<RET>>), ";")

parseIf(st) == Call(eat(eat(st, "if"), "("), <<Enter("parseIfThen"), Enter("parseExpr")>>)

\* parseIf after eat(')'): falseJump = code.length
parseIfJump(s1) ==
  Call(emit(s1, <<JUMP_IF_FALSE, 0>>), <<Frame("parseIfElse", Len(s1.code), 0), Enter("parseStmt")>>)

\* parseIf after the condition
parseIfThen(st) == parseIfJump(eat(st, ")"))

\* parseIf after the then branch
parseIfElse(st, falseJump) ==
  IF peek(st).type = "else"
  THEN Call(eat(patchHere(emit(st, <<JUMP, 0>>), falseJump), "else"),
            <<Frame("parseIfEnd", Len(st.code), 0), Enter("parseStmt")>>)
  ELSE patchHere(st, falseJump)

\* parseIf after the else branch
parseIfEnd(st, elseJump) == patchHere(st, elseJump)

\* parseWhile after eat('while'): loopStart = code.length
parseWhileCond(s0) ==
  Call(eat(s0, "("), <<Frame("parseWhileBody", Len(s0.code), 0), Enter("parseExpr")>>)

parseWhile(st) == parseWhileCond(eat(st, "while"))

\* parseWhile after eat(')'): exitJump = code.length
parseWhileJump(s1, loopStart) ==
  Call(emit(s1, <<JUMP_IF_FALSE, 0>>),
       <<Frame("parseWhileEnd", loopStart, Len(s1.code)), Enter("parseStmt")>>)

\* parseWhile after the condition
parseWhileBody(st, loopStart) == parseWhileJump(eat(st, ")"), loopStart)

\* a loop without its JUMP back to loopStart
parseWhileEndOnce(st, loopStart, exitJump) == patchHere(st, exitJump)

\* parseWhile after the body
parseWhileEnd(st, loopStart, exitJump) == patchHere(emit(st, <<JUMP, loopStart>>), exitJump)

\* while (match(',')) params.push(eat('id').v): [st, params]
RECURSIVE parseParams(_, _)
parseParams(st, params) ==
  IF Failed(st) \/ peek(st).type # "," THEN [st |-> st, params |-> params]
  ELSE IF peek(eat(st, ",")).type # "id"
       THEN [st |-> eat(eat(st, ","), "id"), params |-> params]
       ELSE parseParams(eat(eat(st, ","), "id"), Append(params, peek(eat(st, ",")).v))

\* the parameter names between the parentheses: [st, params]
parseParamList(s2) ==
  IF Failed(s2) \/ peek(s2).type = ")" THEN [st |-> s2, params |-> <<>>]
  ELSE IF peek(s2).type # "id" THEN [st |-> eat(s2, "id"), params |-> <<>>]
  ELSE parseParams(eat(s2, "id"), <<peek(s2).v>>)

\* params.map(x => cp.indexOf(x)): [cp, idxs]
RECURSIVE IndexAll(_, _, _)
IndexNext(r, params, idxs) == IndexAll(r.cp, params, Append(idxs, r.i))

IndexAll(cp, params, idxs) ==
  IF params = <<>> THEN [cp |-> cp, idxs |-> idxs]
  ELSE IndexNext(IndexOf(cp, StrV(Head(params))), Tail(params), idxs)

\* functions.push({entry: -1, arity, paramNameIdxs}); emit(OP.MAKE_CLOS, funcIndex);
\* emit(OP.STORE_VAR, cp.indexOf(fname)), for the pool and indexes ix of the parameters
declareFunction(s3, ix, fname) ==
  emitIndexed(emit([s3 EXCEPT !.cp = ix.cp,
                              !.functions = Append(s3.functions,
                                 [entry |-> -1, arity |-> Len(ix.idxs),
                                  paramNameIdxs |-> ix.idxs])],
                   <<MAKE_CLOS, Len(s3.functions)>>),
              STORE_VAR, StrV(fname))

\* functions[funcIndex].entry = code.length, s6 following emit(OP.JUMP, 0)
setEntry(s6) == [s6 EXCEPT !.functions[Len(s6.functions)].entry = Len(s6.code)]

\* parseFunctionDecl from jumpAddr = code.length up to parseBlock()
parseFunctionBody(s5) ==
  Call(setEntry(emit(s5, <<JUMP, 0>>)),
       <<Frame("parseFunctionEnd", Len(s5.code), 0), Enter("parseBlock")>>)

\* parseFunctionDecl after eat(')')
parseFunctionEntry(s3, params, fname) ==
  IF Failed(s3) THEN s3
  ELSE parseFunctionBody(declareFunction(s3, IndexAll(s3.cp, params, <<>>), fname))

\* parseFunctionDecl after its parameter list r
parseFunctionParams(r, fname) == parseFunctionEntry(eat(r.st, ")"), r.params, fname)

\* parseFunctionDecl after eat('function'): the token at s1 is the name
parseFunctionName(s1) == parseFunctionParams(parseParamList(eat(eat(s1, "id"), "(")), peek(s1).v)

parseFunctionDecl(st) == parseFunctionName(eat(st, "function"))

\* a declaration whose body gets no PUSH_CONST undefined; RET after it
parseFunctionEndBare(st, jumpAddr) == patchHere(st, jumpAddr)

\* parseFunctionDecl after parseBlock()
parseFunctionEnd(st, jumpAddr) ==
  patchHere(emit(emitIndexed(st, PUSH_CONST, UndefV), <<RET>>), jumpAddr)

parseBlock(st) == Call(eat(st, "{"), <<Enter("parseBlockLoop")>>)

\* the loop of parseBlock and its eat('}')
parseBlockLoop(st) ==
  IF peek(st).type # "}" THEN Call(st, <<Enter("parseBlockLoop"), Enter("parseStmt")>>)
  ELSE eat(st, "}")

parseStmt(st) ==
  LET t == peek(st).type IN
  CASE t = "let" -> parseLet(st)
    [] t = "print" -> parsePrint(st)
    [] t = "function" -> parseFunctionDecl(st)
    [] t = "return" -> parseReturn(st)
    [] t = "if" -> parseIf(st)
    [] t = "while" -> parseWhile(st)
    [] t = "{" -> parseBlock(st)
    [] OTHER -> Call(st, <<Enter("parseStmtEnd"), Enter("parseExpr")>>)

\* an expression statement that leaves its value on the stack
parseStmtEndKeep(st) == eat(st, ";")

\* the expression statement after parseExpr()
parseStmtEnd(st) == eat(emit(st, <<POP>>), ";")

RelOp(t) ==
  CASE t = "==" -> EQ [] t = "!=" -> NE [] t = "<" -> LT
    [] t = ">" -> GT [] t = "<=" -> LE [] t = ">=" -> GE

parseExpr(st) == Call(st, <<Enter("parseExprLoop"), Enter("parseComparison")>>)

\* the loop of parseExpr: its test, and its body up to parseComparison()
parseExprLoop(st) ==
  IF peek(st).type \in {"==", "!=", "<", ">", "<=", ">="}
  THEN Call(eat(st, peek(st).type),
            <<Enter("parseExprLoop"), Frame("emit", RelOp(peek(st).type), 0),
              Enter("parseComparison")>>)
  ELSE st

parseComparison(st) == Call(st, <<Enter("parseComparisonLoop"), Enter("parseTerm")>>)

\* the loop of parseComparison: its test, and its body up to parseTerm()
parseComparisonLoop(st) ==
  IF peek(st).type \in {"+", "-"}
  THEN Call(eat(st, peek(st).type),
            <<Enter("parseComparisonLoop"),
              Frame("emit", IF peek(st).type = "+" THEN ADD ELSE SUB, 0), Enter("parseTerm")>>)
  ELSE st

parseTerm(st) == Call(st, <<Enter("parseTermLoop"), Enter("parseFactor")>>)

\* the loop of parseTerm: its test, and its body up to parseFactor()
parseTermLoop(st) ==
  IF peek(st).type \in {"*", "/"}
  THEN Call(eat(st, peek(st).type),
            <<Enter("parseTermLoop"),
              Frame("emit", IF peek(st).type = "*" THEN MUL ELSE DIV, 0), Enter("parseFactor")>>)
  ELSE st

\* parseFactor after emit(OP.LOAD_VAR, idx), up to the first argument
parseCall(st) ==
  IF Failed(st) \/ peek(st).type # "(" THEN st
  ELSE IF peek(eat(st, "(")).type # ")"
       THEN Call(eat(st, "("), <<Frame("parseArgs", 1, 0), Enter("parseExpr")>>)
       ELSE emit(eat(eat(st, "("), ")"), <<CALL, 0>>)

\* the loop over the further arguments, eat(')') and emit(OP.CALL, argc)
parseArgs(st, argc) ==
  IF peek(st).type = ","
  THEN Call(eat(st, ","), <<Frame("parseArgs", argc + 1, 0), Enter("parseExpr")>>)
  ELSE emit(eat(st, ")"), <<CALL, argc>>)

parseFactor(st) ==
  LET t == peek(st) IN
  CASE t.type = "num" -> emitIndexed(eat(st, "num"), PUSH_CONST, Num(t.v))
    [] t.type = "str" -> emitIndexed(eat(st, "str"), PUSH_CONST, StrV(t.v))
    [] t.type = "(" -> Call(eat(st, "("), <<Enter("parseFactorEnd"), Enter("parseExpr")>>)
    [] t.type = "id" -> parseCall(emitIndexed(eat(st, "id"), LOAD_VAR, StrV(t.v)))
    [] OTHER -> Throw(st, "Unexpected token in Factor: " \o t.type)

\* parseFactor after the parenthesised parseExpr()
parseFactorEnd(st) == eat(st, ")")

\* the innermost call continues: st is the state with its frame fr taken off
Resume(st, fr) ==
  CASE fr.f = "parseProgram" -> parseProgram(st)
    [] fr.f = "parseStmt" -> parseStmt(st)
    [] fr.f = "parseStmtEnd" -> parseStmtEnd(st)
    [] fr.f = "parseLetEnd" -> parseLetEnd(st, fr.a)
    [] fr.f = "parsePrintEnd" -> parsePrintEnd(st)
    [] fr.f = "parseReturnEnd" -> parseReturnEnd(st)
    [] fr.f = "parseIfThen" -> parseIfThen(st)
    [] fr.f = "parseIfElse" -> parseIfElse(st, fr.a)
    [] fr.f = "parseIfEnd" -> parseIfEnd(st, fr.a)
    [] fr.f = "parseWhileBody" -> parseWhileBody(st, fr.a)
    [] fr.f = "parseWhileEnd" -> parseWhileEnd(st, fr.a, fr.b)
    [] fr.f = "parseFunctionEnd" -> parseFunctionEnd(st, fr.a)
    [] fr.f = "parseBlock" -> parseBlock(st)
    [] fr.f = "parseBlockLoop" -> parseBlockLoop(st)
    [] fr.f = "parseExpr" -> parseExpr(st)
    [] fr.f = "parseExprLoop" -> parseExprLoop(st)
    [] fr.f = "parseComparison" -> parseComparison(st)
    [] fr.f = "parseComparisonLoop" -> parseComparisonLoop(st)
    [] fr.f = "parseTerm" -> parseTerm(st)
    [] fr.f = "parseTermLoop" -> parseTermLoop(st)
    [] fr.f = "parseFactor" -> parseFactor(st)
    [] fr.f = "parseFactorEnd" -> parseFactorEnd(st)
    [] fr.f = "parseArgs" -> parseArgs(st, fr.a)
    [] fr.f = "emit" -> emit(st, <<fr.a>>)

parseStep(st) == Resume([st EXCEPT !.k = SubSeq(st.k, 1, Len(st.k) - 1)], st.k[Len(st.k)])

\* the parser after at most n more steps, taken half by half; it stops at a throw and
\* when parseProgram has returned
RECURSIVE parseSteps(_, _)
parseSteps(st, n) ==
  IF n = 0 \/ Failed(st) \/ st.k = <<>> THEN st
  ELSE IF n = 1 THEN parseStep(st)
  ELSE parseSteps(parseSteps(st, n \div 2), n - (n \div 2))

\* a bound on the steps of a parse: StepsPerToken for each token
StepsPerToken == 16

\* compile(src): [ok, err, code, consts, functions]
Rejected(msg) == [ok |-> FALSE, err |-> msg, code |-> <<>>, consts |-> <<>>, functions |-> <<>>]

\* return {code, consts: cp.pool, functions}
compiled(st) ==
  IF Failed(st) THEN Rejected(st.err)
  ELSE [ok |-> TRUE, err |-> NoErr, code |-> st.code,
        consts |-> st.cp.pool, functions |-> st.functions]

\* compile after tokenize
compileTokens(tk) ==
  IF tk.err # NoErr THEN Rejected(tk.err)
  ELSE compiled(parseSteps([toks |-> tk.toks, p |-> 0, cp |-> NewConstPool, code |-> <<>>,
                            functions |-> <<>>, err |-> NoErr, k |-> <<Enter("parseProgram")>>],
                           StepsPerToken * Len(tk.toks)))

compile(src) == compileTokens(tokenize(src))

-----------------------------------------------------------------------------
(* Env and the instruction semantics shared by runVM and runVMHardened.    *)
(* An interpreter state is a record                                        *)
(*   [status, S, ip, env, envs, callStack, out, calls, nclos, err, result] *)
(* envs is the store of Env objects; an Env is named by its 1-based        *)
(* position there and 0 is the null parent.  out collects the values given *)
(* to console.log and calls the host functions invoked with their          *)
(* arguments.  Undef stands for the undefined that reading past the end of *)
(* an array yields where a number is expected.                             *)

Undef == -1

NoVars == [x \in {} |-> UndefV]

NewEnv(parent) == [vars |-> NoVars, parent |-> parent]

\* a lookup that stops at the current environment
EnvGetHere(envs, e, name) ==
  IF name \in DOMAIN envs[e].vars THEN [found |-> TRUE, v |-> envs[e].vars[name]]
  ELSE [found |-> FALSE, v |-> UndefV]

\* Env.get: [found, v]
RECURSIVE EnvGet(_, _, _)
EnvGet(envs, e, name) ==
  IF name \in DOMAIN envs[e].vars THEN [found |-> TRUE, v |-> envs[e].vars[name]]
  ELSE IF envs[e].parent # 0 THEN EnvGet(envs, envs[e].parent, name)
  ELSE [found |-> FALSE, v |-> UndefV]

\* the nearest environment from e up that binds name; e itself when none does
RECURSIVE Binder(_, _, _, _)
Binder(envs, e, name, from) ==
  IF name \in DOMAIN envs[e].vars THEN e
  ELSE IF envs[e].parent # 0 THEN Binder(envs, envs[e].parent, name, from)
  ELSE from

\* a write that walks up to the environment already binding the name
SetWhereBound(envs, e, name, val) ==
  [envs EXCEPT ![Binder(envs, e, name, e)].vars
                 = (name :> val) @@ envs[Binder(envs, e, name, e)].vars]

\* Env.setHere
SetHere(envs, e, name, val) ==
  [envs EXCEPT ![e].vars = (name :> val) @@ envs[e].vars]

\* a start that copies no builtin
InjectBuiltinsNone(envs, names) == envs

\* the global environment with the host builtins copied in
RECURSIVE InjectBuiltins(_, _)
InjectBuiltins(envs, names) ==
  IF names = <<>> THEN envs
  ELSE InjectBuiltins(SetHere(envs, 1, Head(names), HostV(Head(names))), Tail(names))

StartVM(hostBuiltins) ==
  [status |-> "running", S |-> <<>>, ip |-> 0, env |-> 1,
   envs |-> InjectBuiltins(<<NewEnv(0)>>, hostBuiltins),
   callStack |-> <<>>, out |-> <<>>, calls |-> <<>>, nclos |-> 0,
   err |-> NoErr, result |-> UndefV]

IdleVM == [StartVM(<<>>) EXCEPT !.status = "idle"]

Running(m) == m.status = "running"

Fail(m, msg) == [m EXCEPT !.status = "error", !.err = msg]

\* S.pop(): undefined from an empty stack
Top(S) == IF S = <<>> THEN UndefV ELSE S[Len(S)]
Rest(S) == IF S = <<>> THEN S ELSE SubSeq(S, 1, Len(S) - 1)

\* consts[idx]
readConst(consts, idx) ==
  IF idx >= 0 /\ idx < Len(consts) THEN consts[idx + 1] ELSE UndefV

\* the host functions of the model: Math.max, and a function that returns nothing
RECURSIVE MaxOf(_, _)
MaxOf(args, acc) ==
  IF args = <<>> THEN acc
  ELSE LET x == ToNum(Head(args)) IN
       MaxOf(Tail(args),
             IF acc.t = "nan" \/ x.t = "nan" THEN NaNV
             ELSE IF NumLess(acc, x) = "lt" THEN x ELSE acc)

HostApply(name, args) ==
  CASE name = <<"m","a","x">> -> MaxOf(args, InfV(-1))
    [] OTHER -> UndefV

\* a closure that captures the global environment whatever the current one is
makeFnValGlobal(functions, fidx, closEnv, id) ==
  [t |-> "fn", entry |-> functions[fidx + 1].entry, arity |-> functions[fidx + 1].arity,
   paramsIdx |-> functions[fidx + 1].paramNameIdxs, closEnv |-> 1, id |-> id]

makeFnVal(functions, fidx, closEnv, id) ==
  [t |-> "fn", entry |-> functions[fidx + 1].entry, arity |-> functions[fidx + 1].arity,
   paramsIdx |-> functions[fidx + 1].paramNameIdxs, closEnv |-> closEnv, id |-> id]

Binary(op, a, b) ==
  CASE op = ADD -> JsAdd(a, b) [] op = SUB -> JsSub(a, b)
    [] op = MUL -> JsMul(a, b) [] op = DIV -> JsDiv(a, b)
    [] op = EQ -> JsEq(a, b)   [] op = NE -> JsNe(a, b)
    [] op = LT -> JsLt(a, b)   [] op = GT -> JsGt(a, b)
    [] op = LE -> JsLe(a, b)   [] op = GE -> JsGe(a, b)

BinaryOps == {ADD, SUB, MUL, DIV, EQ, NE, LT, GT, LE, GE}

\* the operands of CALL taken as args[0] .. args[argc-1], the last pushed first
PopArgsReversed(S, argc) ==
  IF argc = Undef THEN [args |-> <<UndefV>>, S |-> S]
  ELSE LET k == IF argc < Len(S) THEN argc ELSE Len(S) IN
       [args |-> [i \in 1..argc |-> IF i <= k THEN S[Len(S) - i + 1] ELSE UndefV],
        S |-> SubSeq(S, 1, Len(S) - k)]

\* the operands of CALL: args[argc-1] .. args[0] are popped in this order
PopArgs(S, argc) ==
  IF argc = Undef THEN [args |-> <<UndefV>>, S |-> S]
  ELSE LET k == IF argc < Len(S) THEN argc ELSE Len(S) IN
       [args |-> [i \in 1..(argc - k) |-> UndefV] \o SubSeq(S, Len(S) - k + 1, Len(S)),
        S |-> SubSeq(S, 1, Len(S) - k)]

\* a binding of the parameters to the arguments taken from the last one backwards
BindParamsBackwards(envs, e, consts, callee, args) ==
  LET Bind[i \in 0..callee.arity] ==
        IF i = 0 THEN envs
        ELSE SetHere(Bind[i - 1], e,
                     ToStr(readConst(consts, IF i <= Len(callee.paramsIdx)
                                             THEN callee.paramsIdx[i] ELSE Undef)),
                     IF i <= Len(args) THEN args[Len(args) - i + 1] ELSE UndefV)
  IN Bind[callee.arity]

\* env.setHere(String(consts[paramsIdx[i]]), args[i]) for i < arity
BindParams(envs, e, consts, callee, args) ==
  LET Bind[i \in 0..callee.arity] ==
        IF i = 0 THEN envs
        ELSE SetHere(Bind[i - 1], e,
                     ToStr(readConst(consts, IF i <= Len(callee.paramsIdx)
                                             THEN callee.paramsIdx[i] ELSE Undef)),
                     IF i <= Len(args) THEN args[i] ELSE UndefV)
  IN Bind[callee.arity]

\* a CALL whose new environment hangs under the caller's, not under callee.closEnv
ExecCallFromCaller(m, argc, consts) ==
  LET r == PopArgs(m.S, argc)
      callee == Top(r.S)
      S1 == Rest(r.S)
  IN
  IF callee.t = "host"
  THEN [m EXCEPT !.S = Append(S1, HostApply(callee.name, r.args)),
                 !.calls = Append(m.calls, [name |-> callee.name, args |-> r.args])]
  ELSE IF callee.t # "fn" THEN Fail([m EXCEPT !.S = S1], "Not callable")
  ELSE IF argc # callee.arity
       THEN Fail([m EXCEPT !.S = S1],
                 "arity mismatch: expect " \o Text(IntToChars(callee.arity)) \o ", got "
                 \o (IF argc = Undef THEN "undefined" ELSE Text(IntToChars(argc))))
  ELSE LET e == Len(m.envs) + 1 IN
       [m EXCEPT !.S = S1,
                 !.callStack = Append(m.callStack, [retIp |-> m.ip, savedEnv |-> m.env]),
                 !.env = e,
                 !.envs = BindParams(Append(m.envs, NewEnv(m.env)), e, consts,
                                     callee, r.args),
                 !.ip = callee.entry]

\* a CALL that pushes its frame and enters the new environment before its checks
ExecCallFrameFirst(m, argc, consts) ==
  LET r == PopArgs(m.S, argc)
      callee == Top(r.S)
      S1 == Rest(r.S)
      framed == [m EXCEPT !.S = S1,
                          !.callStack = Append(m.callStack, [retIp |-> m.ip, savedEnv |-> m.env]),
                          !.env = Len(m.envs) + 1,
                          !.envs = Append(m.envs, NewEnv(m.env))]
  IN
  IF callee.t = "host"
  THEN [m EXCEPT !.S = Append(S1, HostApply(callee.name, r.args)),
                 !.calls = Append(m.calls, [name |-> callee.name, args |-> r.args])]
  ELSE IF callee.t # "fn" THEN Fail(framed, "Not callable")
  ELSE IF argc # callee.arity
       THEN Fail(framed,
                 "arity mismatch: expect " \o Text(IntToChars(callee.arity)) \o ", got "
                 \o (IF argc = Undef THEN "undefined" ELSE Text(IntToChars(argc))))
  ELSE LET e == Len(m.envs) + 1 IN
       [m EXCEPT !.S = S1,
                 !.callStack = Append(m.callStack, [retIp |-> m.ip, savedEnv |-> m.env]),
                 !.env = e,
                 !.envs = BindParams(Append(m.envs, NewEnv(callee.closEnv)), e, consts,
                                     callee, r.args),
                 !.ip = callee.entry]

\* a CALL whose new environment has the environment of the caller for parent
ExecCallDynamic(m, argc, consts) ==
  LET r == PopArgs(m.S, argc)
      callee == Top(r.S)
      S1 == Rest(r.S)
  IN
  IF callee.t = "host"
  THEN [m EXCEPT !.S = Append(S1, HostApply(callee.name, r.args)),
                 !.calls = Append(m.calls, [name |-> callee.name, args |-> r.args])]
  ELSE IF callee.t # "fn" THEN Fail([m EXCEPT !.S = S1], "Not callable")
  ELSE IF argc # callee.arity
       THEN Fail([m EXCEPT !.S = S1],
                 "arity mismatch: expect " \o Text(IntToChars(callee.arity)) \o ", got "
                 \o (IF argc = Undef THEN "undefined" ELSE Text(IntToChars(argc))))
  ELSE LET e == Len(m.envs) + 1 IN
       [m EXCEPT !.S = S1,
                 !.callStack = Append(m.callStack, [retIp |-> m.ip, savedEnv |-> m.env]),
                 !.env = e,
                 !.envs = BindParams(Append(m.envs, NewEnv(m.env)), e, consts,
                                     callee, r.args),
                 !.ip = callee.entry]

\* case OP.CALL
ExecCall(m, argc, consts) ==
  LET r == PopArgs(m.S, argc)
      callee == Top(r.S)
      S1 == Rest(r.S)
  IN
  IF callee.t = "host"
  THEN [m EXCEPT !.S = Append(S1, HostApply(callee.name, r.args)),
                 !.calls = Append(m.calls, [name |-> callee.name, args |-> r.args])]
  ELSE IF callee.t # "fn" THEN Fail([m EXCEPT !.S = S1], "Not callable")
  ELSE IF argc # callee.arity
       THEN Fail([m EXCEPT !.S = S1],
                 "arity mismatch: expect " \o Text(IntToChars(callee.arity)) \o ", got "
                 \o (IF argc = Undef THEN "undefined" ELSE Text(IntToChars(argc))))
  ELSE LET e == Len(m.envs) + 1 IN
       [m EXCEPT !.S = S1,
                 !.callStack = Append(m.callStack, [retIp |-> m.ip, savedEnv |-> m.env]),
                 !.env = e,
                 !.envs = BindParams(Append(m.envs, NewEnv(callee.closEnv)), e, consts,
                                     callee, r.args),
                 !.ip = callee.entry]

\* a JUMP that enters a new environment under the current one
ExecJumpScoped(m, addr) ==
  [m EXCEPT !.ip = addr, !.envs = Append(m.envs, NewEnv(m.env)), !.env = Len(m.envs) + 1]

\* a JUMP that leaves ip after its operand
ExecJumpPast(m, addr) == m

\* case OP.JUMP: ip = addr
ExecJump(m, addr) == [m EXCEPT !.ip = addr]

\* a RET that goes back to the caller's code without its environment
ExecRetKeepEnv(m) ==
  LET ret == Top(m.S)
      S1 == Rest(m.S)
  IN IF m.callStack = <<>>
     THEN [m EXCEPT !.S = Append(S1, ret), !.status = "returned", !.result = ret]
     ELSE LET frame == m.callStack[Len(m.callStack)] IN
          [m EXCEPT !.callStack = SubSeq(m.callStack, 1, Len(m.callStack) - 1),
                    !.ip = frame.retIp, !.S = Append(S1, ret)]

\* a RET that does not end the run when the call stack is empty
ExecRetTopContinues(m) ==
  LET ret == Top(m.S)
      S1 == Rest(m.S)
  IN IF m.callStack = <<>>
     THEN [m EXCEPT !.S = Append(S1, ret), !.result = ret]
     ELSE LET frame == m.callStack[Len(m.callStack)] IN
          [m EXCEPT !.callStack = SubSeq(m.callStack, 1, Len(m.callStack) - 1),
                    !.ip = frame.retIp, !.env = frame.savedEnv, !.S = Append(S1, ret)]

\* a RET that restores the frame and leaves no value to the caller
ExecRetNoValue(m) ==
  LET ret == Top(m.S)
      S1 == Rest(m.S)
  IN IF m.callStack = <<>>
     THEN [m EXCEPT !.S = Append(S1, ret), !.status = "returned", !.result = ret]
     ELSE LET frame == m.callStack[Len(m.callStack)] IN
          [m EXCEPT !.callStack = SubSeq(m.callStack, 1, Len(m.callStack) - 1),
                    !.ip = frame.retIp, !.env = frame.savedEnv, !.S = S1]

ExecRet(m) ==
  LET ret == Top(m.S)
      S1 == Rest(m.S)
  IN IF m.callStack = <<>>
     THEN [m EXCEPT !.S = Append(S1, ret), !.status = "returned", !.result = ret]
     ELSE LET frame == m.callStack[Len(m.callStack)] IN
          [m EXCEPT !.callStack = SubSeq(m.callStack, 1, Len(m.callStack) - 1),
                    !.ip = frame.retIp, !.env = frame.savedEnv, !.S = Append(S1, ret)]

\* one case of the switch: m already has ip past the instruction, imm is its
\* immediate (Undef when the instruction has none or the code ends before it)
Exec(m, op, imm, consts, functions) ==
  CASE op = PUSH_CONST -> [m EXCEPT !.S = Append(m.S, readConst(consts, imm))]
    [] op = LOAD_VAR ->
         LET name == ToStr(readConst(consts, imm))
             r == EnvGet(m.envs, m.env, name)
         IN IF r.found THEN [m EXCEPT !.S = Append(m.S, r.v)]
            ELSE Fail(m, "Undefined variable: " \o Text(name))
    [] op = STORE_VAR ->
         [m EXCEPT !.S = Rest(m.S),
                   !.envs = SetHere(m.envs, m.env, ToStr(readConst(consts, imm)), Top(m.S))]
    [] op \in BinaryOps ->
         LET b == Top(m.S)
             a == Top(Rest(m.S))
         IN [m EXCEPT !.S = Append(Rest(Rest(m.S)), Binary(op, a, b))]
    [] op = PRINT -> [m EXCEPT !.S = Rest(m.S), !.out = Append(m.out, Top(m.S))]
    [] op = POP -> [m EXCEPT !.S = Rest(m.S)]
    [] op = MAKE_CLOS ->
         IF imm >= 0 /\ imm < Len(functions)
         THEN [m EXCEPT !.S = Append(m.S, makeFnVal(functions, imm, m.env, m.nclos)),
                        !.nclos = m.nclos + 1]
         ELSE Fail(m, "TypeError: Cannot read properties of undefined (reading 'entry')")
    [] op = CALL -> ExecCall(m, imm, consts)
    [] op = RET -> ExecRet(m)
    [] op = JUMP -> ExecJump(m, imm)
    [] op = JUMP_IF_FALSE ->
         IF ~Truthy(Top(m.S)) THEN [m EXCEPT !.S = Rest(m.S), !.ip = imm]
         ELSE [m EXCEPT !.S = Rest(m.S)]
    [] op = HALT -> [m EXCEPT !.status = "halted", !.result = UndefV]

HasImmediate(op) ==
  op \in {PUSH_CONST, LOAD_VAR, STORE_VAR, MAKE_CLOS, CALL, JUMP, JUMP_IF_FALSE}

\* code[i], Undef outside the array
At(code, i) == IF i >= 0 /\ i < Len(code) THEN code[i + 1] ELSE Undef

NumText(n) ==
  IF n = Undef THEN "undefined" ELSE IF n = 0 - 2 THEN "NaN" ELSE Text(IntToChars(n))

\* one iteration of the loop of runVM
\* a loop that passes over a byte that is no opcode
StepVMSkipBad(m, code, consts, functions) ==
  LET op == At(code, m.ip)
  IN IF \E i \in 1..Len(LOGICAL_OPS) : LOGICAL_OPS[i] = op
     THEN IF HasImmediate(op)
          THEN Exec([m EXCEPT !.ip = m.ip + 2], op, At(code, m.ip + 1), consts, functions)
          ELSE Exec([m EXCEPT !.ip = m.ip + 1], op, Undef, consts, functions)
     ELSE [m EXCEPT !.ip = m.ip + 1]

\* one iteration of the loop of runVM
StepVM(m, code, consts, functions) ==
  LET op == At(code, m.ip)
  IN IF \E i \in 1..Len(LOGICAL_OPS) : LOGICAL_OPS[i] = op
     THEN IF HasImmediate(op)
          THEN Exec([m EXCEPT !.ip = m.ip + 2], op, At(code, m.ip + 1), consts, functions)
          ELSE Exec([m EXCEPT !.ip = m.ip + 1], op, Undef, consts, functions)
     ELSE Fail([m EXCEPT !.ip = m.ip + 1], "Bad opcode " \o NumText(op))

-----------------------------------------------------------------------------
(* Bytes, 32-bit words and hex text *)

\* a ^ b on non-negative integers
RECURSIVE Xor(_, _)
Xor(a, b) ==
  IF a = 0 THEN b
  ELSE IF b = 0 THEN a
  ELSE ((a + b) % 2) + 2 * Xor(a \div 2, b \div 2)

\* a 32-bit word from its halves
W(h, l) == [h |-> h, l |-> l]

\* (x * y) mod 2^16 and (x * y) div 2^16 for 16-bit x and y, without leaving 31 bits
MulLo16(x, y) == ((x % 256) * y + 256 * (((x \div 256) * y) % 256)) % 65536
MulHi16(x, y) ==
  LET p0 == (x % 256) * y
      p1 == (x \div 256) * y
  IN (p1 \div 256) + ((p0 + 256 * (p1 % 256)) \div 65536)

\* Math.imul(a, c) >>> 0
Imul(a, c) ==
  W((MulHi16(a.l, c.l) + MulLo16(a.h, c.l) + MulLo16(a.l, c.h)) % 65536, MulLo16(a.l, c.l))

\* (a + c) >>> 0
Add32(a, c) == W((a.h + c.h + ((a.l + c.l) \div 65536)) % 65536, (a.l + c.l) % 65536)

\* the value of an array element in a bitwise operation: undefined and NaN count as 0
Undefined(b) == b < 0
NaNByte == -2
Bits(b) == IF b < 0 THEN 0 ELSE b

\* n as four bytes, least significant first (n >= 0)
writeU32(n) ==
  << n % 256, (n \div 256) % 256, (n \div 65536) % 256, (n \div 16777216) % 256 >>

HexDigits == <<"0","1","2","3","4","5","6","7","8","9","a","b","c","d","e","f">>

IsHexChar(c) == \E d \in 1..16 : HexDigits[d] = c \/ (d > 10 /\ c = <<"A","B","C","D","E","F">>[d - 10])

HexVal(c) ==
  (CHOOSE d \in 1..16 : HexDigits[d] = c \/ (d > 10 /\ c = <<"A","B","C","D","E","F">>[d - 10])) - 1

\* b.toString(16).padStart(2, '0')
RECURSIVE ToHexDigits(_)
ToHexDigits(b) ==
  IF b < 16 THEN <<HexDigits[b + 1]>> ELSE ToHexDigits(b \div 16) \o <<HexDigits[(b % 16) + 1]>>

ByteToHex(b) == IF b < 16 THEN <<"0">> \o ToHexDigits(b) ELSE ToHexDigits(b)

\* buf.map(b => b.toString(16).padStart(2, '0')).join('')
RECURSIVE JoinHex(_, _, _)
JoinHex(buf, lo, hi) ==
  IF lo > hi THEN <<>>
  ELSE IF lo = hi THEN ByteToHex(buf[lo])
  ELSE JoinHex(buf, lo, (lo + hi) \div 2) \o JoinHex(buf, ((lo + hi) \div 2) + 1, hi)

ToHex(buf) == JoinHex(buf, 1, Len(buf))

\* parseInt(pair, 16) for a slice of one or two characters
ParseHexPair(pair) ==
  IF ~IsHexChar(pair[1]) THEN NaNByte
  ELSE IF Len(pair) = 2 /\ IsHexChar(pair[2]) THEN 16 * HexVal(pair[1]) + HexVal(pair[2])
  ELSE HexVal(pair[1])

\* for (i = 0; i < hex.length; i += 2) bytes.push(parseInt(hex.slice(i, i + 2), 16))
FromHex(hexText) ==
  [k \in 1..((Len(hexText) + 1) \div 2) |->
     ParseHexPair(SubSeq(hexText, 2 * k - 1, IF 2 * k <= Len(hexText) THEN 2 * k ELSE 2 * k - 1))]

\* new TextEncoder().encode(s), for the modelled alphabet
EncodeText(cs) == [i \in 1..Len(cs) |-> CharCode(cs[i])]

\* new TextDecoder().decode(bytes)
DecodeText(bs) == [i \in 1..Len(bs) |-> CodeChar(bs[i])]

writeString(cs) == writeU32(Len(EncodeText(cs))) \o EncodeText(cs)

(* The IEEE-754 double of a number, as 64 bits from the sign bit down *)

RECURSIVE Log2(_)
Log2(a) == IF a < 2 THEN 0 ELSE 1 + Log2(a \div 2)

RECURSIVE Pow2(_)
Pow2(e) == IF e = 0 THEN 1 ELSE 2 * Pow2(e - 1)

\* the low `width` bits of a, most significant first
BitsOf(a, width) == [i \in 1..width |-> (a \div Pow2(width - i)) % 2]

RECURSIVE BitsValue(_)
BitsValue(bits) ==
  IF bits = <<>> THEN 0 ELSE 2 * BitsValue(SubSeq(bits, 1, Len(bits) - 1)) + bits[Len(bits)]

Zeros(n) == [i \in 1..n |-> 0]

F64Bits(v) ==
  CASE v.t = "nan" -> <<0>> \o BitsOf(2047, 11) \o <<1>> \o Zeros(51)
    [] v.t = "inf" -> <<IF v.sg < 0 THEN 1 ELSE 0>> \o BitsOf(2047, 11) \o Zeros(52)
    [] v.t = "num" /\ v.n = 0 -> Zeros(64)
    [] v.t = "num" /\ v.n # 0 ->
         LET a == IF v.n < 0 THEN 0 - v.n ELSE v.n
             e == Log2(a)
         IN <<IF v.n < 0 THEN 1 ELSE 0>> \o BitsOf(1023 + e, 11)
            \o BitsOf(a - Pow2(e), e) \o Zeros(52 - e)

\* new Uint8Array(new Float64Array([c]).buffer): the eight bytes, least significant first
F64Bytes(v) ==
  LET bits == F64Bits(v) IN
  [k \in 1..8 |-> BitsValue(SubSeq(bits, 8 * (8 - k) + 1, 8 * (8 - k) + 8))]

\* new Float64Array(bytes.buffer)[0]; a double that is no integer below 2^31 is kept
\* by its bytes, outside the modelled numbers
F64Value(bytes8) ==
  LET bits == [i \in 1..64 |-> (bytes8[8 - ((i - 1) \div 8)] \div Pow2(7 - ((i - 1) % 8))) % 2]
      sg == IF bits[1] = 1 THEN -1 ELSE 1
      ex == BitsValue(SubSeq(bits, 2, 12))
      man == SubSeq(bits, 13, 64)
      e == ex - 1023
  IN CASE ex = 2047 -> IF man = Zeros(52) THEN InfV(sg) ELSE NaNV
       [] ex = 0 /\ man = Zeros(52) -> Num(0)
       [] ex # 2047 /\ e >= 0 /\ e <= 30 /\ SubSeq(man, e + 1, 52) = Zeros(52 - e) ->
            Num(sg * (Pow2(e) + BitsValue(SubSeq(man, 1, e))))
       [] OTHER -> [t |-> "f64", bytes |-> bytes8]

-----------------------------------------------------------------------------
(* The plain container: packToHex and unpackFromHex *)

RECURSIVE ConcatAll(_)
ConcatAll(ss) == IF ss = <<>> THEN <<>> ELSE Head(ss) \o ConcatAll(Tail(ss))

writeConst(c) ==
  CASE IsNumeric(c) -> <<1>> \o F64Bytes(c)
    [] c.t = "str" -> <<2>> \o writeString(c.s)
    [] OTHER -> <<0>>

writeFunction(fn) ==
  writeU32(fn.entry) \o writeU32(fn.arity) \o writeU32(Len(fn.paramNameIdxs))
  \o ConcatAll([i \in 1..Len(fn.paramNameIdxs) |-> writeU32(fn.paramNameIdxs[i])])

\* the constant pool and the function table, as both packers write them
writeTables(consts, functions) ==
  writeU32(Len(consts)) \o ConcatAll([i \in 1..Len(consts) |-> writeConst(consts[i])])
  \o writeU32(Len(functions))
  \o ConcatAll([i \in 1..Len(functions) |-> writeFunction(functions[i])])

packToHex(code, consts, functions) ==
  ToHex(writeTables(consts, functions) \o writeU32(Len(code)) \o code)

(* Reading.  A read position is an integer, or NaNPos once an undefined or  *)
(* NaN length has been added to it; it saturates at +/-Big, far outside any *)
(* image.  A declared count above MaxDeclared is not followed: the result   *)
(* is then marked unmodelled.                                               *)

Big == 1073741824
NaNPos == 0 - (Big + 1)
MaxDeclared == 40

Advance(pos, n) ==
  IF pos = NaNPos \/ n = Undef \/ n = NaNByte THEN NaNPos
  ELSE IF n > 0 /\ pos > Big - n THEN Big
  ELSE IF n < 0 /\ pos < (0 - Big) - n THEN 0 - Big
  ELSE pos + n

\* bytes[pos]
ByteAt(bytes, pos) ==
  IF pos = NaNPos \/ pos < 0 \/ pos >= Len(bytes) THEN Undef ELSE bytes[pos + 1]

\* bytes.slice(from, to)
RelIndex(len, k) ==
  IF k = NaNPos THEN 0
  ELSE IF k < 0 THEN (IF len + k < 0 THEN 0 ELSE len + k)
  ELSE IF k > len THEN len ELSE k

SliceJs(bytes, from, to) ==
  SubSeq(bytes, RelIndex(Len(bytes), from) + 1, RelIndex(Len(bytes), to))

\* bytes[pos] | bytes[pos+1] << 8 | bytes[pos+2] << 16 | bytes[pos+3] << 24, a signed word
readU32(bytes, pos) ==
  LET b0 == Bits(ByteAt(bytes, pos))
      b1 == Bits(ByteAt(bytes, Advance(pos, 1)))
      b2 == Bits(ByteAt(bytes, Advance(pos, 2)))
      b3 == Bits(ByteAt(bytes, Advance(pos, 3)))
  IN b0 + 256 * b1 + 65536 * b2 + 16777216 * (IF b3 >= 128 THEN b3 - 256 ELSE b3)

RangeErrorF64 == "RangeError: byte length of Float64Array should be a multiple of 8"
Unmodelled == "<declared count above MaxDeclared>"

\* a numeric constant from its slice f64Bytes, the position already past it: [pos, v, err]
readNumber(pos, f64Bytes) ==
  IF Len(f64Bytes) = 8
  THEN [pos |-> pos, err |-> NoErr, v |-> F64Value([k \in 1..8 |-> Bits(f64Bytes[k])])]
  ELSE IF Len(f64Bytes) = 0
  THEN [pos |-> pos, err |-> NoErr, v |-> UndefV]
  ELSE [pos |-> pos, err |-> RangeErrorF64, v |-> UndefV]

\* readString() at p2, the length word already read: [pos, v, err]
readString(bytes, p2, len) ==
  [pos |-> Advance(p2, len), err |-> NoErr,
   v |-> StrV(DecodeText([k \in 1..Len(SliceJs(bytes, p2, Advance(p2, len))) |->
                            Bits(SliceJs(bytes, p2, Advance(p2, len))[k])]))]

\* one constant of the given type byte, p1 the position after that byte: [pos, v, err]
readTyped(bytes, type, p1) ==
  CASE type = 1 -> readNumber(Advance(p1, 8), SliceJs(bytes, p1, Advance(p1, 8)))
    [] type = 2 -> readString(bytes, Advance(p1, 4), readU32(bytes, p1))
    [] OTHER -> [pos |-> p1, err |-> NoErr, v |-> UndefV]

\* one constant at pos: [pos, v, err]
readConstant(bytes, pos) == readTyped(bytes, ByteAt(bytes, pos), Advance(pos, 1))

\* the loop state [pos, items, i, err] after the item r was read
pushItem(c, r) ==
  IF r.err # NoErr THEN [c EXCEPT !.pos = r.pos, !.err = r.err]
  ELSE [pos |-> r.pos, items |-> Append(c.items, r.v), i |-> c.i + 1, err |-> NoErr]

\* at most n more iterations of for (i = 0; i < constCount; i++), taken half by half
RECURSIVE readConstants(_, _, _, _)
readConstants(bytes, c, constCount, n) ==
  IF n <= 0 \/ c.err # NoErr \/ c.i >= constCount THEN c
  ELSE IF n = 1 THEN pushItem(c, readConstant(bytes, c.pos))
  ELSE readConstants(bytes, readConstants(bytes, c, constCount, n \div 2), constCount,
                     n - (n \div 2))

\* n words from pos
readWords(bytes, pos, n) ==
  [j \in 1..(IF n < 0 THEN 0 ELSE n) |-> readU32(bytes, Advance(pos, 4 * (j - 1)))]

\* one entry of the function table at pos, its paramCount already read: [pos, v, err]
readEntry(bytes, pos, paramCount) ==
  IF paramCount > MaxDeclared
  THEN [pos |-> Advance(pos, 12), err |-> Unmodelled, v |-> UndefV]
  ELSE [pos |-> Advance(Advance(pos, 12), 4 * (IF paramCount < 0 THEN 0 ELSE paramCount)),
        err |-> NoErr,
        v |-> [entry |-> readU32(bytes, pos), arity |-> readU32(bytes, Advance(pos, 4)),
               paramNameIdxs |-> readWords(bytes, Advance(pos, 12), paramCount)]]

readFunction(bytes, pos) == readEntry(bytes, pos, readU32(bytes, Advance(pos, 8)))

\* at most n more iterations of for (i = 0; i < funcCount; i++), taken half by half
RECURSIVE readFunctions(_, _, _, _)
readFunctions(bytes, c, funcCount, n) ==
  IF n <= 0 \/ c.err # NoErr \/ c.i >= funcCount THEN c
  ELSE IF n = 1 THEN pushItem(c, readFunction(bytes, c.pos))
  ELSE readFunctions(bytes, readFunctions(bytes, c, funcCount, n \div 2), funcCount,
                     n - (n \div 2))

ReadFrom(pos, err) == [pos |-> pos, items |-> <<>>, i |-> 0, err |-> err]

\* the constant pool at pos, its count already read: [pos, items, i, err]
readConstantTable(bytes, pos, constCount) ==
  IF constCount > MaxDeclared THEN ReadFrom(pos, Unmodelled)
  ELSE readConstants(bytes, ReadFrom(Advance(pos, 4), NoErr), constCount, constCount)

\* the function table after the constant pool cs, its count already read
readFunctionTable(bytes, cs, funcCount) ==
  IF cs.err # NoErr THEN ReadFrom(cs.pos, cs.err)
  ELSE IF funcCount > MaxDeclared THEN ReadFrom(cs.pos, Unmodelled)
  ELSE readFunctions(bytes, ReadFrom(Advance(cs.pos, 4), NoErr), funcCount, funcCount)

Tables(cs, fs) ==
  [pos |-> fs.pos, constants |-> cs.items, functions |-> fs.items, err |-> fs.err]

readTablesAfter(bytes, cs) == Tables(cs, readFunctionTable(bytes, cs, readU32(bytes, cs.pos)))

\* the constant pool and the function table from pos: [pos, constants, functions, err]
readTables(bytes, pos) == readTablesAfter(bytes, readConstantTable(bytes, pos, readU32(bytes, pos)))

\* the code of the plain container after the tables t
unpackCode(bytes, t) ==
  [err |-> t.err, constants |-> t.constants, functions |-> t.functions,
   code |-> IF t.err # NoErr THEN <<>>
            ELSE SliceJs(bytes, Advance(t.pos, 4),
                         Advance(Advance(t.pos, 4), readU32(bytes, t.pos)))]

unpackBytes(bytes) == unpackCode(bytes, readTables(bytes, 0))

\* unpackFromHex(hex): [err, constants, functions, code]
unpackFromHex(hexText) == unpackBytes(FromHex(hexText))

-----------------------------------------------------------------------------
(* The protection layer *)

\* a shuffle that copies phys[j] to phys[i] and leaves phys[j] as it is
RECURSIVE Shuffle(_, _, _), ShuffleCopy(_, _, _)
ShuffleCopy(phys, draws, i) ==
  IF i <= 0 THEN phys
  ELSE ShuffleCopy([k \in 1..Len(phys) |-> IF k = i + 1 THEN phys[draws[i] + 1] ELSE phys[k]],
                   draws, i - 1)

\* the Fisher-Yates loop of makeOpcodeMap from i down to 1; draws[i] is the j drawn for i
Shuffle(phys, draws, i) ==
  IF i <= 0 THEN phys
  ELSE LET j == draws[i] IN
       Shuffle([k \in 1..Len(phys) |-> IF k = i + 1 THEN phys[j + 1]
                                       ELSE IF k = j + 1 THEN phys[i + 1] ELSE phys[k]],
               draws, i - 1)

\* makeOpcodeMap().physBytes: phys[i] is the physical byte of LOGICAL_OPS[i]
makeOpcodeMap(draws) ==
  Shuffle([i \in 1..Len(LOGICAL_OPS) |-> i], draws, Len(LOGICAL_OPS) - 1)

\* opMap.get(lop); Undef when lop is no logical opcode
MapOp(phys, lop) ==
  IF \E i \in 1..Len(LOGICAL_OPS) : LOGICAL_OPS[i] = lop
  THEN phys[CHOOSE i \in 1..Len(LOGICAL_OPS) : LOGICAL_OPS[i] = lop]
  ELSE Undef

\* one iteration of the loop of rewriteCodeWithMap, on [out, i, err]
rewriteOne(r, phys) ==
  LET lop == r.out[r.i + 1] IN
  IF MapOp(phys, lop) = Undef
  THEN [r EXCEPT !.err = "Unknown logical opcode: " \o NumText(lop)]
  ELSE [r EXCEPT !.out[r.i + 1] = MapOp(phys, lop),
                 !.i = IF HasImmediate(lop) THEN r.i + 2 ELSE r.i + 1]

\* at most n more iterations of for (i = 0; i < out.length;), taken half by half
RECURSIVE rewriteLoop(_, _, _)
rewriteLoop(r, phys, n) ==
  IF n = 0 \/ r.err # NoErr \/ r.i >= Len(r.out) THEN r
  ELSE IF n = 1 THEN rewriteOne(r, phys)
  ELSE rewriteLoop(rewriteLoop(r, phys, n \div 2), phys, n - (n \div 2))

\* rewriteCodeWithMap: [out, i, err]
rewriteCodeWithMap(code, phys) ==
  rewriteLoop([out |-> code, i |-> 0, err |-> NoErr], phys, Len(code))

MacSeed == W(40503, 31153)     \* 0x9e3779b1
MacMul == W(40503, 31153)      \* 2654435761
MaskAdd == W(40503, 31153)     \* 0x9e3779b1
MaskMul == W(34283, 51819)     \* 0x85ebca6b

\* h ^ b for a word h and an array element b below 2^16
XorLow(h, b) == W(h.h, Xor(h.l, Bits(b)))

\* the loop of simpleMAC on [h, i], i the number of elements taken: at most n more
\* iterations of for (let b of bytes), taken half by half
RECURSIVE macLoop(_, _, _)
macLoop(m, bytes, n) ==
  IF n = 0 \/ m.i >= Len(bytes) THEN m
  ELSE IF n = 1 THEN [h |-> Imul(XorLow(m.h, bytes[m.i + 1]), MacMul), i |-> m.i + 1]
  ELSE macLoop(macLoop(m, bytes, n \div 2), bytes, n - (n \div 2))

\* a tag over all the bytes but the last
simpleMACShort(bytes) ==
  LET h == macLoop([h |-> MacSeed, i |-> 0], bytes, Len(bytes) - 1).h IN
  << h.h \div 256, h.h % 256, h.l \div 256, h.l % 256 >>

simpleMAC(bytes) ==
  LET h == macLoop([h |-> MacSeed, i |-> 0], bytes, Len(bytes)).h IN
  << h.h \div 256, h.h % 256, h.l \div 256, h.l % 256 >>

maskAt(seed, offset) ==
  LET x1 == Add32(XorLow(seed, offset), MaskAdd)
      x2 == Imul(W(x1.h, Xor(x1.l, x1.h)), MaskMul)
  IN x2.h \div 256

encodeOneUnmasked(orig, e, seed) ==
  IF HasImmediate(orig[e.i + 1])
  THEN [coded |-> IF e.i + 2 <= Len(e.coded) THEN e.coded ELSE Append(e.coded, 0),
        i |-> e.i + 2]
  ELSE [e EXCEPT !.i = e.i + 1]

\* one iteration of the outer loop of encodeImmediates, on [coded, i]; j = i throughout,
\* the two streams advancing together
encodeOne(orig, e, seed) ==
  IF HasImmediate(orig[e.i + 1])
  THEN [coded |-> IF e.i + 2 <= Len(e.coded)
                  THEN [e.coded EXCEPT ![e.i + 2] = Xor(e.coded[e.i + 2], maskAt(seed, e.i + 1))]
                  ELSE Append(e.coded, maskAt(seed, e.i + 1)),
        i |-> e.i + 2]
  ELSE [e EXCEPT !.i = e.i + 1]

\* at most n more iterations of while (i < origLogicalCode.length), taken half by half
RECURSIVE encodeLoop(_, _, _, _)
encodeLoop(orig, e, seed, n) ==
  IF n = 0 \/ e.i >= Len(orig) THEN e
  ELSE IF n = 1 THEN encodeOne(orig, e, seed)
  ELSE encodeLoop(orig, encodeLoop(orig, e, seed, n \div 2), seed, n - (n \div 2))

encodeImmediates(orig, coded, seed) ==
  encodeLoop(orig, [coded |-> coded, i |-> 0], seed, Len(orig)).coded

Magic == <<86, 77, 3>>

\* packToHexHardened with the shuffle draws and the seed Math.random gave: [err, hexText]
packToHexHardened(code, consts, functions, draws, seed) ==
  LET phys == makeOpcodeMap(draws)
      rw == rewriteCodeWithMap(code, phys)
      coded == encodeImmediates(code, rw.out, seed)
      body == writeTables(consts, functions)
              \o <<Len(LOGICAL_OPS) % 256>> \o phys
              \o << seed.h \div 256, seed.h % 256, seed.l \div 256, seed.l % 256 >>
              \o writeU32(Len(coded)) \o coded
  IN IF rw.err # NoErr THEN [err |-> rw.err, hexText |-> <<>>]
     ELSE [err |-> NoErr, hexText |-> ToHex(Magic \o body \o simpleMAC(body))]

BadMagic == "Bad magic number"
BadVersion == "Bad version - expected VMP protected format v3 (with immediate encryption)"
IntegrityFailed == "Integrity check failed - code may be tampered"

decodeFailed(msg) ==
  [err |-> msg, constants |-> <<>>, functions |-> <<>>, inv |-> <<>>, seed |-> W(0, 0),
   code |-> <<>>]

\* the comparison of the stored tag mac with the computed one
verify(t, phys, seed, code, mac, calc) ==
  IF \E i \in 1..Len(mac) : mac[i] # calc[i] THEN decodeFailed(IntegrityFailed)
  ELSE [err |-> NoErr, constants |-> t.constants, functions |-> t.functions,
        inv |-> [i \in 1..Len(LOGICAL_OPS) |-> IF i <= Len(phys) THEN phys[i] ELSE Undef],
        seed |-> seed, code |-> code]

\* the code at p4 and the tag after it
decodeCode(bytes, t, phys, seed, codeLen, p4) ==
  verify(t, phys, seed, SliceJs(bytes, p4, Advance(p4, codeLen)),
         SliceJs(bytes, Advance(p4, codeLen), Advance(Advance(p4, codeLen), 4)),
         simpleMAC(SliceJs(bytes, 3, -4)))

\* the seed at p2, most significant byte first, and the length of the code
decodeSeed(bytes, t, phys, p2) ==
  decodeCode(bytes, t, phys,
             W(256 * Bits(ByteAt(bytes, p2)) + Bits(ByteAt(bytes, Advance(p2, 1))),
               256 * Bits(ByteAt(bytes, Advance(p2, 2))) + Bits(ByteAt(bytes, Advance(p2, 3)))),
             readU32(bytes, Advance(p2, 4)), Advance(p2, 8))

\* the opcode map of declared length mlen at p1
decodeMap(bytes, t, mlen, p1) ==
  decodeSeed(bytes, t, SliceJs(bytes, p1, Advance(p1, mlen)), Advance(p1, mlen))

decodeTables(bytes, t) ==
  IF t.err # NoErr THEN decodeFailed(t.err)
  ELSE decodeMap(bytes, t, ByteAt(bytes, t.pos), Advance(t.pos, 1))

\* a decoder that looks at the version byte after the container and its tag
decodeBytesVersionLast(bytes) ==
  LET d == decodeTables(bytes, readTables(bytes, 3)) IN
  IF ByteAt(bytes, 0) # 86 \/ ByteAt(bytes, 1) # 77 THEN decodeFailed(BadMagic)
  ELSE IF d.err # NoErr THEN d
  ELSE IF ByteAt(bytes, 2) # 3 THEN decodeFailed(BadVersion)
  ELSE d

decodeBytes(bytes) ==
  CASE ByteAt(bytes, 0) # 86 \/ ByteAt(bytes, 1) # 77 -> decodeFailed(BadMagic)
    [] ByteAt(bytes, 0) = 86 /\ ByteAt(bytes, 1) = 77 /\ ByteAt(bytes, 2) # 3 ->
         decodeFailed(BadVersion)
    [] OTHER -> decodeTables(bytes, readTables(bytes, 3))

\* the part of runHexHardened before the interpreter starts:
\* [err, constants, functions, inv, seed, code]
decodeHardened(hexText) == decodeBytes(FromHex(hexText))

\* invMap.get(physOp): inv[i] is the key under which LOGICAL_OPS[i] was set, a later
\* set of the same key replacing an earlier one; Undef when no key matches
InvGet(inv, physOp) ==
  IF \E i \in 1..Len(inv) : inv[i] = physOp
  THEN LOGICAL_OPS[CHOOSE i \in 1..Len(inv) :
                     inv[i] = physOp /\ \A k \in (i + 1)..Len(inv) : inv[k] # physOp]
  ELSE Undef

\* readImm1 at ip
readImm1(code, seed, ip) == Xor(Bits(At(code, ip)), maskAt(seed, ip)) % 256

\* one iteration of the loop of runVMHardened
StepVMHardened(m, code, consts, functions, inv, seed) ==
  LET physOp == At(code, m.ip)
      op == InvGet(inv, physOp)
  IN IF op = Undef
     THEN Fail([m EXCEPT !.ip = m.ip + 1],
               "Unknown physical opcode: " \o NumText(physOp)
               \o " at position " \o NumText(m.ip))
     ELSE IF HasImmediate(op)
          THEN Exec([m EXCEPT !.ip = m.ip + 2], op, readImm1(code, seed, m.ip + 1),
                    consts, functions)
          ELSE Exec([m EXCEPT !.ip = m.ip + 1], op, Undef, consts, functions)

-----------------------------------------------------------------------------
(* Source texts *)

\* let a = 10;
\* function outer(x) {
\*   let y = 5;
\*   function inner(z) {
\*     // inner
\*     return x + y + z + a;
\*   }
\*   return inner(7);
\* }
\* print( outer(3) );   // 3 + 5 + 7 + 10 = 25
Src_nested ==
  << "l","e","t"," ","a"," ","="," ","1","0",";","\n","f","u","n","c","t","i","o","n"," ",
     "o","u","t","e","r","(","x",")"," ","{","\n"," "," ","l","e","t"," ","y"," ","="," ",
     "5",";","\n"," "," ","f","u","n","c","t","i","o","n"," ","i","n","n","e","r","(","z",
     ")"," ","{","\n"," "," "," "," ","/","/"," ","i","n","n","e","r","\n"," "," "," "," ",
     "r","e","t","u","r","n"," ","x"," ","+"," ","y"," ","+"," ","z"," ","+"," ","a",";",
     "\n"," "," ","}","\n"," "," ","r","e","t","u","r","n"," ","i","n","n","e","r","(","7",
     ")",";","\n","}","\n","p","r","i","n","t","("," ","o","u","t","e","r","(","3",")"," ",
     ")",";"," "," "," ","/","/"," ","3"," ","+"," ","5"," ","+"," ","7"," ","+"," ","1",
     "0"," ","="," ","2","5","\n" >>

\* let a = 2;
\* function f(b){ return b * 10; }
\* print( max( f(3), a + 100 ) ); // max(30, 102) = 102
Src_host ==
  << "l","e","t"," ","a"," ","="," ","2",";","\n","f","u","n","c","t","i","o","n"," ","f",
     "(","b",")","{"," ","r","e","t","u","r","n"," ","b"," ","*"," ","1","0",";"," ","}",
     "\n","p","r","i","n","t","("," ","m","a","x","("," ","f","(","3",")",","," ","a"," ",
     "+"," ","1","0","0"," ",")"," ",")",";"," ","/","/"," ","m","a","x","(","3","0",",",
     " ","1","0","2",")"," ","="," ","1","0","2","\n" >>

\* function mk(s){let c=s; function step(){c=c+1; return c;} return step;}
\* let a=mk(0); let b=mk(100);
\* print(a()); print(a()); print(b()); print(b());
Src_counter ==
  << "f","u","n","c","t","i","o","n"," ","m","k","(","s",")","{","l","e","t"," ","c","=",
     "s",";"," ","f","u","n","c","t","i","o","n"," ","s","t","e","p","(",")","{","c","=",
     "c","+","1",";"," ","r","e","t","u","r","n"," ","c",";","}"," ","r","e","t","u","r",
     "n"," ","s","t","e","p",";","}","\n","l","e","t"," ","a","=","m","k","(","0",")",";",
     " ","l","e","t"," ","b","=","m","k","(","1","0","0",")",";","\n","p","r","i","n","t",
     "(","a","(",")",")",";"," ","p","r","i","n","t","(","a","(",")",")",";"," ","p","r",
     "i","n","t","(","b","(",")",")",";"," ","p","r","i","n","t","(","b","(",")",")",";",
     "\n" >>

\* let msg = "Hello";
\* function greet(name) {
\*   return msg + " " + name + "!";
\* }
\* print( greet("JSVMP") );
Src_greet ==
  << "l","e","t"," ","m","s","g"," ","="," ","\"","H","e","l","l","o","\"",";","\n","f","u",
     "n","c","t","i","o","n"," ","g","r","e","e","t","(","n","a","m","e",")"," ","{","\n",
     " "," ","r","e","t","u","r","n"," ","m","s","g"," ","+"," ","\""," ","\""," ","+"," ",
     "n","a","m","e"," ","+"," ","\"","!","\"",";","\n","}","\n","p","r","i","n","t","(",
     " ","g","r","e","e","t","(","\"","J","S","V","M","P","\"",")"," ",")",";","\n" >>

\* print("tamper test");
Src_tamper ==
  << "p","r","i","n","t","(","\"","t","a","m","p","e","r"," ","t","e","s","t","\"",")",";" >>

\* function mk(s){ function get(){ return c; } let c = s; return get; }
\* function caller(g){ let c = 5; return g(); }
\* print(caller(mk(1)));
Src_capture ==
  << "f","u","n","c","t","i","o","n"," ","m","k","(","s",")","{"," ","f","u","n","c","t",
     "i","o","n"," ","g","e","t","(",")","{"," ","r","e","t","u","r","n"," ","c",";"," ",
     "}"," ","l","e","t"," ","c"," ","="," ","s",";"," ","r","e","t","u","r","n"," ","g",
     "e","t",";"," ","}","\n","f","u","n","c","t","i","o","n"," ","c","a","l","l","e","r",
     "(","g",")","{"," ","l","e","t"," ","c"," ","="," ","5",";"," ","r","e","t","u","r",
     "n"," ","g","(",")",";"," ","}","\n","p","r","i","n","t","(","c","a","l","l","e","r",
     "(","m","k","(","1",")",")",")",";","\n" >>

\* function mk(){ function get(){ return g; } return get; }
\* let g = 1; let a = mk(); print(a());
\* let g = 2; print(a());
Src_shared ==
  << "f","u","n","c","t","i","o","n"," ","m","k","(",")","{"," ","f","u","n","c","t","i",
     "o","n"," ","g","e","t","(",")","{"," ","r","e","t","u","r","n"," ","g",";"," ","}",
     " ","r","e","t","u","r","n"," ","g","e","t",";"," ","}","\n","l","e","t"," ","g"," ",
     "="," ","1",";"," ","l","e","t"," ","a"," ","="," ","m","k","(",")",";"," ","p","r",
     "i","n","t","(","a","(",")",")",";","\n","l","e","t"," ","g"," ","="," ","2",";"," ",
     "p","r","i","n","t","(","a","(",")",")",";","\n" >>

\* function h(){ return q; }
\* function caller(){ let q = 1; return h(); }
\* print(1); print(caller());
Src_callerOnly ==
  << "f","u","n","c","t","i","o","n"," ","h","(",")","{"," ","r","e","t","u","r","n"," ",
     "q",";"," ","}","\n","f","u","n","c","t","i","o","n"," ","c","a","l","l","e","r","(",
     ")","{"," ","l","e","t"," ","q"," ","="," ","1",";"," ","r","e","t","u","r","n"," ",
     "h","(",")",";"," ","}","\n","p","r","i","n","t","(","1",")",";"," ","p","r","i","n",
     "t","(","c","a","l","l","e","r","(",")",")",";","\n" >>

\* print(nop(1, 2)); print(max(4, 9, 2)); return max;
Src_nop ==
  << "p","r","i","n","t","(","n","o","p","(","1",","," ","2",")",")",";"," ","p","r","i",
     "n","t","(","m","a","x","(","4",","," ","9",","," ","2",")",")",";"," ","r","e","t",
     "u","r","n"," ","m","a","x",";" >>

\* function fact(n){if (n==0){return 1;} else {return n*fact(n-1);}} print(fact(
FactHead ==
  << "f","u","n","c","t","i","o","n"," ","f","a","c","t","(","n",")","{","i","f"," ","(",
     "n","=","=","0",")","{","r","e","t","u","r","n"," ","1",";","}"," ","e","l","s","e",
     " ","{","r","e","t","u","r","n"," ","n","*","f","a","c","t","(","n","-","1",")",";",
     "}","}"," ","p","r","i","n","t","(","f","a","c","t","(" >>

\* ));
FactTail ==
  << ")",")",";" >>

\* an object literal
\* function mk() { function add(x) { return x; } return { add: add }; } let calc = mk();
Src_objlit ==
  << "f","u","n","c","t","i","o","n"," ","m","k","(",")"," ","{"," ","f","u","n","c","t",
     "i","o","n"," ","a","d","d","(","x",")"," ","{"," ","r","e","t","u","r","n"," ","x",
     ";"," ","}"," ","r","e","t","u","r","n"," ","{"," ","a","d","d",":"," ","a","d","d",
     " ","}",";"," ","}"," ","l","e","t"," ","c","a","l","c"," ","="," ","m","k","(",")",
     ";","\n" >>

\* an empty object literal
\* let o = {}; print(o);
Src_emptyobj ==
  << "l","e","t"," ","o"," ","="," ","{","}",";"," ","p","r","i","n","t","(","o",")",";" >>

\* an array literal
\* let a = [1, 2]; print(a);
Src_arrlit ==
  << "l","e","t"," ","a"," ","="," ","[","1",","," ","2","]",";"," ","p","r","i","n","t",
     "(","a",")",";" >>

\* a for-loop
\* for (let i = 0; i < 3; i = i + 1) { print(i); }
Src_forloop ==
  << "f","o","r"," ","(","l","e","t"," ","i"," ","="," ","0",";"," ","i"," ","<"," ","3",
     ";"," ","i"," ","="," ","i"," ","+"," ","1",")"," ","{"," ","p","r","i","n","t","(",
     "i",")",";"," ","}" >>

\* a for-loop over an existing variable
\* let i = 0; for (i; i < 3; i) { print(i); }
Src_forplain ==
  << "l","e","t"," ","i"," ","="," ","0",";"," ","f","o","r"," ","(","i",";"," ","i"," ",
     "<"," ","3",";"," ","i",")"," ","{"," ","p","r","i","n","t","(","i",")",";"," ","}" >>

\* a member access
\* function calc() { return 1; } print(calc.memory());
Src_member ==
  << "f","u","n","c","t","i","o","n"," ","c","a","l","c","(",")"," ","{"," ","r","e","t",
     "u","r","n"," ","1",";"," ","}"," ","p","r","i","n","t","(","c","a","l","c",".","m",
     "e","m","o","r","y","(",")",")",";" >>

\* complexExample of the examples, each non-ASCII character of its comments and strings
\* written #
\*   // ##########
\*   function createCalculator() {
\*     let memory = 0;
\*     
\*     function add(x) {
\*       memory = memory + x;
\*       return memory;
\*     }
\*     
\*     function multiply(x) {
\*       memory = memory * x;
\*       return memory;
\*     }
\*     
\*     function getMemory() {
\*       return memory;
\*     }
\*     
\*     function reset() {
\*       memory = 0;
\*       return memory;
\*     }
\*     
\*     // #######
\*     return {
\*       add: add,
\*       multiply: multiply,
\*       memory: getMemory,
\*       reset: reset
\*     };
\*   }
\*   
\*   // #######################
\*   let calc = createCalculator();
\*   print("###:");
\*   print(calc.memory());
Src_complex ==
  << "\n"," "," ","/","/"," ","#","#","#","#","#","#","#","#","#","#","\n"," "," ","f","u",
     "n","c","t","i","o","n"," ","c","r","e","a","t","e","C","a","l","c","u","l","a","t",
     "o","r","(",")"," ","{","\n"," "," "," "," ","l","e","t"," ","m","e","m","o","r","y",
     " ","="," ","0",";","\n"," "," "," "," ","\n"," "," "," "," ","f","u","n","c","t","i",
     "o","n"," ","a","d","d","(","x",")"," ","{","\n"," "," "," "," "," "," ","m","e","m",
     "o","r","y"," ","="," ","m","e","m","o","r","y"," ","+"," ","x",";","\n"," "," "," ",
     " "," "," ","r","e","t","u","r","n"," ","m","e","m","o","r","y",";","\n"," "," "," ",
     " ","}","\n"," "," "," "," ","\n"," "," "," "," ","f","u","n","c","t","i","o","n"," ",
     "m","u","l","t","i","p","l","y","(","x",")"," ","{","\n"," "," "," "," "," "," ","m",
     "e","m","o","r","y"," ","="," ","m","e","m","o","r","y"," ","*"," ","x",";","\n"," ",
     " "," "," "," "," ","r","e","t","u","r","n"," ","m","e","m","o","r","y",";","\n"," ",
     " "," "," ","}","\n"," "," "," "," ","\n"," "," "," "," ","f","u","n","c","t","i","o",
     "n"," ","g","e","t","M","e","m","o","r","y","(",")"," ","{","\n"," "," "," "," "," ",
     " ","r","e","t","u","r","n"," ","m","e","m","o","r","y",";","\n"," "," "," "," ","}",
     "\n"," "," "," "," ","\n"," "," "," "," ","f","u","n","c","t","i","o","n"," ","r","e",
     "s","e","t","(",")"," ","{","\n"," "," "," "," "," "," ","m","e","m","o","r","y"," ",
     "="," ","0",";","\n"," "," "," "," "," "," ","r","e","t","u","r","n"," ","m","e","m",
     "o","r","y",";","\n"," "," "," "," ","}","\n"," "," "," "," ","\n"," "," "," "," ","/",
     "/"," ","#","#","#","#","#","#","#","\n"," "," "," "," ","r","e","t","u","r","n"," ",
     "{","\n"," "," "," "," "," "," ","a","d","d",":"," ","a","d","d",",","\n"," "," "," ",
     " "," "," ","m","u","l","t","i","p","l","y",":"," ","m","u","l","t","i","p","l","y",
     ",","\n"," "," "," "," "," "," ","m","e","m","o","r","y",":"," ","g","e","t","M","e",
     "m","o","r","y",",","\n"," "," "," "," "," "," ","r","e","s","e","t",":"," ","r","e",
     "s","e","t","\n"," "," "," "," ","}",";","\n"," "," ","}","\n"," "," ","\n"," "," ",
     "/","/"," ","#","#","#","#","#","#","#","#","#","#","#","#","#","#","#","#","#","#",
     "#","#","#","#","#","\n"," "," ","l","e","t"," ","c","a","l","c"," ","="," ","c","r",
     "e","a","t","e","C","a","l","c","u","l","a","t","o","r","(",")",";","\n"," "," ","p",
     "r","i","n","t","(","\"","#","#","#",":","\"",")",";","\n"," "," ","p","r","i","n","t",
     "(","c","a","l","c",".","m","e","m","o","r","y","(",")",")",";","\n" >>

\* function f(a){ return a; } print(1); print(f(1, 2)); print(3);
Src_arity ==
  << "f","u","n","c","t","i","o","n"," ","f","(","a",")","{"," ","r","e","t","u","r","n",
     " ","a",";"," ","}"," ","p","r","i","n","t","(","1",")",";"," ","p","r","i","n","t",
     "(","f","(","1",","," ","2",")",")",";"," ","p","r","i","n","t","(","3",")",";" >>

\* function f(a){ return a; } function g(){ let q = 1; return f(); } print(g());
Src_arityInner ==
  << "f","u","n","c","t","i","o","n"," ","f","(","a",")","{"," ","r","e","t","u","r","n",
     " ","a",";"," ","}"," ","f","u","n","c","t","i","o","n"," ","g","(",")","{"," ","l",
     "e","t"," ","q"," ","="," ","1",";"," ","r","e","t","u","r","n"," ","f","(",")",";",
     " ","}"," ","p","r","i","n","t","(","g","(",")",")",";" >>

\* let x = 1; print(0); print(x(2)); print(3);
Src_notCallable ==
  << "l","e","t"," ","x"," ","="," ","1",";"," ","p","r","i","n","t","(","0",")",";"," ",
     "p","r","i","n","t","(","x","(","2",")",")",";"," ","p","r","i","n","t","(","3",")",";" >>

\* function g(s){ return s(1); } print(g("text"));
Src_notCallableInner ==
  << "f","u","n","c","t","i","o","n"," ","g","(","s",")","{"," ","r","e","t","u","r","n",
     " ","s","(","1",")",";"," ","}"," ","p","r","i","n","t","(","g","(","\"","t","e","x",
     "t","\"",")",")",";" >>

\* conditionalExample of the examples, its comments and the messages it prints put in English
\*   // comparisons and conditionals
\*   function checkNumber(x) {
\*     if (x > 0) {
\*       print("positive");
\*     } else {
\*       if (x == 0) {
\*         print("zero");
\*       } else {
\*         print("negative");
\*       }
\*     }
\*   }
\*   
\*   checkNumber(5);
\*   checkNumber(0);
\*   checkNumber(-3);
\*   
\*   // nested conditions
\*   function gradeCheck(score) {
\*     if (score >= 90) {
\*       print("excellent");
\*     } else {
\*       if (score >= 70) {
\*         print("good");
\*       } else {
\*         if (score >= 60) {
\*           print("pass");
\*         } else {
\*           print("fail");
\*         }
\*       }
\*     }
\*   }
\*   
\*   gradeCheck(95);
\*   gradeCheck(75);
\*   gradeCheck(65);
\*   gradeCheck(45);
Src_conditional ==
  << "\n"," "," ","/","/"," ","c","o","m","p","a","r","i","s","o","n","s"," ","a","n","d",
     " ","c","o","n","d","i","t","i","o","n","a","l","s","\n"," "," ","f","u","n","c","t",
     "i","o","n"," ","c","h","e","c","k","N","u","m","b","e","r","(","x",")"," ","{","\n",
     " "," "," "," ","i","f"," ","(","x"," ",">"," ","0",")"," ","{","\n"," "," "," "," ",
     " "," ","p","r","i","n","t","(","\"","p","o","s","i","t","i","v","e","\"",")",";","\n",
     " "," "," "," ","}"," ","e","l","s","e"," ","{","\n"," "," "," "," "," "," ","i","f",
     " ","(","x"," ","=","="," ","0",")"," ","{","\n"," "," "," "," "," "," "," "," ","p",
     "r","i","n","t","(","\"","z","e","r","o","\"",")",";","\n"," "," "," "," "," "," ","}",
     " ","e","l","s","e"," ","{","\n"," "," "," "," "," "," "," "," ","p","r","i","n","t",
     "(","\"","n","e","g","a","t","i","v","e","\"",")",";","\n"," "," "," "," "," "," ","}",
     "\n"," "," "," "," ","}","\n"," "," ","}","\n"," "," ","\n"," "," ","c","h","e","c",
     "k","N","u","m","b","e","r","(","5",")",";","\n"," "," ","c","h","e","c","k","N","u",
     "m","b","e","r","(","0",")",";","\n"," "," ","c","h","e","c","k","N","u","m","b","e",
     "r","(","-","3",")",";","\n"," "," ","\n"," "," ","/","/"," ","n","e","s","t","e","d",
     " ","c","o","n","d","i","t","i","o","n","s","\n"," "," ","f","u","n","c","t","i","o",
     "n"," ","g","r","a","d","e","C","h","e","c","k","(","s","c","o","r","e",")"," ","{",
     "\n"," "," "," "," ","i","f"," ","(","s","c","o","r","e"," ",">","="," ","9","0",")",
     " ","{","\n"," "," "," "," "," "," ","p","r","i","n","t","(","\"","e","x","c","e","l",
     "l","e","n","t","\"",")",";","\n"," "," "," "," ","}"," ","e","l","s","e"," ","{","\n",
     " "," "," "," "," "," ","i","f"," ","(","s","c","o","r","e"," ",">","="," ","7","0",
     ")"," ","{","\n"," "," "," "," "," "," "," "," ","p","r","i","n","t","(","\"","g","o",
     "o","d","\"",")",";","\n"," "," "," "," "," "," ","}"," ","e","l","s","e"," ","{","\n",
     " "," "," "," "," "," "," "," ","i","f"," ","(","s","c","o","r","e"," ",">","="," ",
     "6","0",")"," ","{","\n"," "," "," "," "," "," "," "," "," "," ","p","r","i","n","t",
     "(","\"","p","a","s","s","\"",")",";","\n"," "," "," "," "," "," "," "," ","}"," ","e",
     "l","s","e"," ","{","\n"," "," "," "," "," "," "," "," "," "," ","p","r","i","n","t",
     "(","\"","f","a","i","l","\"",")",";","\n"," "," "," "," "," "," "," "," ","}","\n",
     " "," "," "," "," "," ","}","\n"," "," "," "," ","}","\n"," "," ","}","\n"," "," ",
     "\n"," "," ","g","r","a","d","e","C","h","e","c","k","(","9","5",")",";","\n"," "," ",
     "g","r","a","d","e","C","h","e","c","k","(","7","5",")",";","\n"," "," ","g","r","a",
     "d","e","C","h","e","c","k","(","6","5",")",";","\n"," "," ","g","r","a","d","e","C",
     "h","e","c","k","(","4","5",")",";","\n" >>

\* let g = 1; function f(g2){ let g = 2; let g2 = g; return g; } print(f(7)); print(g);
Src_shadow ==
  << "l","e","t"," ","g"," ","="," ","1",";"," ","f","u","n","c","t","i","o","n"," ","f",
     "(","g","2",")","{"," ","l","e","t"," ","g"," ","="," ","2",";"," ","l","e","t"," ",
     "g","2"," ","="," ","g",";"," ","r","e","t","u","r","n"," ","g",";"," ","}"," ","p",
     "r","i","n","t","(","f","(","7",")",")",";"," ","p","r","i","n","t","(","g",")",";" >>

\* let i=0; while (i<3) { print(i); let i=i+1; }
Src_whileloop ==
  << "l","e","t"," ","i","=","0",";"," ","w","h","i","l","e"," ","(","i","<","3",")"," ",
     "{"," ","p","r","i","n","t","(","i",")",";"," ","l","e","t"," ","i","=","i","+","1",
     ";"," ","}" >>

\* function f(a){ if (a) { return 1; } print(a); } print(f(0)); print(f(2)); print(5);
Src_noreturn ==
  << "f","u","n","c","t","i","o","n"," ","f","(","a",")","{"," ","i","f"," ","(","a",")",
     " ","{"," ","r","e","t","u","r","n"," ","1",";"," ","}"," ","p","r","i","n","t","(",
     "a",")",";"," ","}"," ","p","r","i","n","t","(","f","(","0",")",")",";"," ","p","r",
     "i","n","t","(","f","(","2",")",")",";"," ","p","r","i","n","t","(","5",")",";" >>

\* function sub(a, b){ return a - b; } let a = 7; print(sub(5, a));
Src_twoargs ==
  << "f","u","n","c","t","i","o","n"," ","s","u","b","(","a",","," ","b",")","{"," ","r",
     "e","t","u","r","n"," ","a"," ","-"," ","b",";"," ","}"," ","l","e","t"," ","a"," ",
     "="," ","7",";"," ","p","r","i","n","t","(","s","u","b","(","5",","," ","a",")",")",";" >>

\* print(max(1, 2)); let max = 5; let v = 7; print(max);
Src_redefine ==
  << "p","r","i","n","t","(","m","a","x","(","1",","," ","2",")",")",";"," ","l","e","t",
     " ","m","a","x"," ","="," ","5",";"," ","l","e","t"," ","v"," ","="," ","7",";"," ",
     "p","r","i","n","t","(","m","a","x",")",";" >>

\* let a = 1; { let a = 2; let b = 3; } if (a) { let d = 6; } print(a); print(b); print(d); function f(){ if (1) { let c = 4; } return c; } print(f());
Src_blocks ==
  << "l","e","t"," ","a"," ","="," ","1",";"," ","{"," ","l","e","t"," ","a"," ","="," ",
     "2",";"," ","l","e","t"," ","b"," ","="," ","3",";"," ","}"," ","i","f"," ","(","a",
     ")"," ","{"," ","l","e","t"," ","d"," ","="," ","6",";"," ","}"," ","p","r","i","n",
     "t","(","a",")",";"," ","p","r","i","n","t","(","b",")",";"," ","p","r","i","n","t",
     "(","d",")",";"," ","f","u","n","c","t","i","o","n"," ","f","(",")","{"," ","i","f",
     " ","(","1",")"," ","{"," ","l","e","t"," ","c"," ","="," ","4",";"," ","}"," ","r",
     "e","t","u","r","n"," ","c",";"," ","}"," ","p","r","i","n","t","(","f","(",")",")",";" >>

\* 1;
BigUnit == <<"1", ";">>

\* if (1) print(2);
BigTail ==
  << "i","f"," ","(","1",")"," ","p","r","i","n","t","(","2",")",";" >>

\* the factorial program of the examples, printing fact(n)
Src_fact(n) == FactHead \o NatToChars(n) \o FactTail

\* k statements 1; and then a conditional: its jump lands at offset 3 * k + 7
Repeat(cs, k) == [i \in 1..(k * Len(cs)) |-> cs[((i - 1) % Len(cs)) + 1]]

Src_big(k) == Repeat(BigUnit, k) \o BigTail

-----------------------------------------------------------------------------
(* Inputs *)

MaxFact == 5
BigFrom == 82
MaxBig == 83
MaxDraw == 2
MaxSeed == 2
MaxTamperLen == 70
MaxCut == 5
MaxRun == 512
MaxAlterPos == 16
MaxPlainLen == 100
BadIndex == 127

Programs ==
  { <<"nested", 0>>, <<"host", 0>>, <<"counter", 0>>, <<"greet", 0>>, <<"tamper", 0>>,
    <<"capture", 0>>, <<"shared", 0>>, <<"callerOnly", 0>>, <<"nop", 0>> }
  \cup { <<"blocks", 0>> }
  \cup { <<"redefine", 0>> }
  \cup { <<"twoargs", 0>> }
  \cup { <<"noreturn", 0>> }
  \cup { <<"whileloop", 0>> }
  \cup { <<"shadow", 0>> }
  \cup { <<"conditional", 0>> }
  \cup { <<"notCallableInner", 0>> }
  \cup { <<"notCallable", 0>> }
  \cup { <<"arityInner", 0>> }
  \cup { <<"arity", 0>> }
  \cup { <<"complex", 0>> }
  \cup { <<"member", 0>> }
  \cup { <<"forplain", 0>> }
  \cup { <<"forloop", 0>> }
  \cup { <<"arrlit", 0>> }
  \cup { <<"emptyobj", 0>> }
  \cup { <<"objlit", 0>> }
  \cup { <<"fact", n>> : n \in 0..MaxFact }
  \cup { <<"big", k>> : k \in BigFrom..MaxBig }

Source(p) ==
  CASE p[1] = "nested" -> Src_nested
    [] p[1] = "host" -> Src_host
    [] p[1] = "counter" -> Src_counter
    [] p[1] = "greet" -> Src_greet
    [] p[1] = "tamper" -> Src_tamper
    [] p[1] = "capture" -> Src_capture
    [] p[1] = "shared" -> Src_shared
    [] p[1] = "callerOnly" -> Src_callerOnly
    [] p[1] = "nop" -> Src_nop
    [] p[1] = "objlit" -> Src_objlit
    [] p[1] = "emptyobj" -> Src_emptyobj
    [] p[1] = "arrlit" -> Src_arrlit
    [] p[1] = "forloop" -> Src_forloop
    [] p[1] = "forplain" -> Src_forplain
    [] p[1] = "member" -> Src_member
    [] p[1] = "complex" -> Src_complex
    [] p[1] = "arity" -> Src_arity
    [] p[1] = "arityInner" -> Src_arityInner
    [] p[1] = "notCallable" -> Src_notCallable
    [] p[1] = "notCallableInner" -> Src_notCallableInner
    [] p[1] = "conditional" -> Src_conditional
    [] p[1] = "shadow" -> Src_shadow
    [] p[1] = "whileloop" -> Src_whileloop
    [] p[1] = "noreturn" -> Src_noreturn
    [] p[1] = "twoargs" -> Src_twoargs
    [] p[1] = "redefine" -> Src_redefine
    [] p[1] = "blocks" -> Src_blocks
    [] p[1] = "fact" -> Src_fact(p[2])
    [] p[1] = "big" -> Src_big(p[2])

\* the hostBuiltins map, by its keys: {max: Math.max} with a function returning nothing
HostNames == << <<"m","a","x">>, <<"n","o","p">> >>

\* the draws of the shuffle: for i = 20 down to 1 a j in 0..i
Draws(k) == [i \in 1..(Len(LOGICAL_OPS) - 1) |-> (k * i) % (i + 1)]
\* the draws j = i but for the last one: the identity with two opcodes exchanged
OneSwap == [i \in 1..(Len(LOGICAL_OPS) - 1) |-> IF i = 1 THEN 0 ELSE i]
DrawChoices == { Draws(k) : k \in 0..MaxDraw } \cup {OneSwap}

\* the seeds: multiples of 0x9e3779b1 modulo 2^32
RECURSIVE SeedOf(_)
SeedOf(k) == IF k = 0 THEN W(0, 0) ELSE Add32(SeedOf(k - 1), MaskAdd)
SeedChoices == { SeedOf(k) : k \in 0..MaxSeed }

-----------------------------------------------------------------------------
(* The pipeline: compile, runVM, packToHex, unpackFromHex, packToHexHardened, *)
(* an optional alteration of the protected image, runHexHardened.            *)

NoUnit == Rejected(NoErr)
NoUnpacked == [err |-> NoErr, constants |-> <<>>, functions |-> <<>>, code |-> <<>>]
NoDec == [err |-> NoErr, constants |-> <<>>, functions |-> <<>>, inv |-> <<>>,
          seed |-> W(0, 0), code |-> <<>>]
Untouched == [kind |-> "none", byte |-> 0, bit |-> 0]

\* no simpleMAC call yet
NoMac == [n |-> 0, bytes |-> <<>>, at |-> 0, byte |-> 0, tag |-> <<>>, tagAt |-> <<>>]

\* no indexOf call yet
NoCall == [n |-> 0, v |-> UndefV, i |-> 0, before |-> <<>>]

Init ==
  /\ prog \in Programs
  /\ builtins = HostNames
  /\ phase = "source"
  /\ unit = NoUnit
  /\ vm = IdleVM
  /\ hex = <<>>
  /\ unpacked = NoUnpacked
  /\ hhex = <<>>
  /\ packed = [draws |-> <<>>, seed |-> W(0, 0)]
  /\ tampered = Untouched
  /\ dec = NoDec
  /\ hvm = IdleVM
  /\ constPool = NewConstPool
  /\ lastCall = NoCall
  /\ physBytes = <<>>
  /\ macCall = NoMac

Compile ==
  /\ phase = "source"
  /\ unit' = compile(Source(prog))
  /\ phase' = IF unit'.ok THEN "compiled" ELSE "rejected"
  /\ UNCHANGED <<prog, builtins, vm, hex, unpacked, hhex, packed, tampered, dec, hvm,
               constPool, lastCall, physBytes, macCall>>

\* runVM up to its loop
RunVM ==
  /\ phase = "compiled"
  /\ vm' = StartVM(builtins)
  /\ phase' = "running"
  /\ UNCHANGED <<prog, builtins, unit, hex, unpacked, hhex, packed, tampered, dec, hvm,
               constPool, lastCall, physBytes, macCall>>

\* one instruction of runVM
Step ==
  /\ phase = "running"
  /\ Running(vm)
  /\ vm' = StepVM(vm, unit.code, unit.consts, unit.functions)
  /\ UNCHANGED <<prog, builtins, phase, unit, hex, unpacked, hhex, packed, tampered, dec, hvm,
               constPool, lastCall, physBytes, macCall>>

PackToHex ==
  /\ phase = "running"
  /\ ~Running(vm)
  /\ hex' = packToHex(unit.code, unit.consts, unit.functions)
  /\ phase' = "packed"
  /\ UNCHANGED <<prog, builtins, unit, vm, unpacked, hhex, packed, tampered, dec, hvm,
               constPool, lastCall, physBytes, macCall>>

\* the text with its last hex digit missing: an odd number of digits
DropLastDigit(hexText) == SubSeq(hexText, 1, Len(hexText) - 1)

\* the text with the 1-based digit i replaced by a character that is no hex digit
NonHexAt(hexText, i) == [hexText EXCEPT ![i] = "g"]

\* a plain image of odd length handed to unpackFromHex
OddHex ==
  /\ phase = "packed"
  /\ tampered.kind = "none"
  /\ Len(hex) <= 2 * MaxTamperLen
  /\ hex' = DropLastDigit(hex)
  /\ tampered' = [kind |-> "odd", byte |-> 0, bit |-> 0]
  /\ UNCHANGED <<prog, builtins, phase, unit, vm, unpacked, hhex, packed, dec, hvm,
               constPool, lastCall, physBytes, macCall>>

\* a plain image holding a non-hex character handed to unpackFromHex
NonHex ==
  /\ phase = "packed"
  /\ tampered.kind = "none"
  /\ Len(hex) <= 2 * MaxTamperLen
  /\ \E i \in 1..MaxAlterPos :
       /\ i <= Len(hex)
       /\ hex' = NonHexAt(hex, i)
       /\ tampered' = [kind |-> "nonhex", byte |-> i, bit |-> 0]
  /\ UNCHANGED <<prog, builtins, phase, unit, vm, unpacked, hhex, packed, dec, hvm,
               constPool, lastCall, physBytes, macCall>>

\* the text with the pair of digits of byte number pos (from 0) replaced by those of b
SetPair(hexText, pos, b) ==
  SubSeq(hexText, 1, 2 * pos) \o ByteToHex(b) \o SubSeq(hexText, 2 * pos + 3, Len(hexText))

\* a plain image with one byte overwritten by a large index handed to unpackFromHex
SetByte ==
  /\ phase = "packed"
  /\ tampered.kind = "none"
  /\ Len(hex) <= 2 * MaxPlainLen
  /\ \E pos \in 0..(MaxPlainLen - 1) :
       /\ 2 * pos + 2 <= Len(hex)
       /\ hex' = SetPair(hex, pos, BadIndex)
       /\ tampered' = [kind |-> "index", byte |-> pos, bit |-> 0]
  /\ UNCHANGED <<prog, builtins, phase, unit, vm, unpacked, hhex, packed, dec, hvm,
               constPool, lastCall, physBytes, macCall>>

UnpackFromHex ==
  /\ phase = "packed"
  /\ unpacked' = unpackFromHex(hex)
  /\ phase' = "unpacked"
  /\ UNCHANGED <<prog, builtins, unit, vm, hex, hhex, packed, tampered, dec, hvm,
               constPool, lastCall, physBytes, macCall>>

PackToHexHardened ==
  /\ phase = "unpacked"
  /\ tampered.kind = "none"
  /\ \E draws \in DrawChoices, seed \in SeedChoices :
       /\ packed' = [draws |-> draws, seed |-> seed]
       /\ hhex' = packToHexHardened(unit.code, unit.consts, unit.functions, draws, seed).hexText
  /\ phase' = "protected"
  /\ UNCHANGED <<prog, builtins, unit, vm, hex, unpacked, tampered, dec, hvm,
               constPool, lastCall, physBytes, macCall>>

\* the image with bit `bit` of its 0-based byte `byte` flipped
FlipBit(hexText, byte, bit) ==
  LET old == ParseHexPair(SubSeq(hexText, 2 * byte + 1, 2 * byte + 2))
      new == ByteToHex(Xor(old, Pow2(bit)))
  IN [hexText EXCEPT ![2 * byte + 1] = new[1], ![2 * byte + 2] = new[2]]

\* a single-bit flip in the region the tag covers
FlipCovered ==
  /\ phase = "protected"
  /\ tampered.kind = "none"
  /\ Len(hhex) <= 2 * MaxTamperLen
  /\ \E byte \in 3..((Len(hhex) \div 2) - 5), bit \in 0..7 :
       /\ decodeHardened(FlipBit(hhex, byte, bit)).err # Unmodelled
       /\ hhex' = FlipBit(hhex, byte, bit)
       /\ tampered' = [kind |-> "flip", byte |-> byte, bit |-> bit]
  /\ UNCHANGED <<prog, builtins, phase, unit, vm, hex, unpacked, packed, dec, hvm,
               constPool, lastCall, physBytes, macCall>>

\* vmpHex.slice(0, -8) + '00000000'
OverwriteTag ==
  /\ phase = "protected"
  /\ tampered.kind = "none"
  /\ Len(hhex) >= 8
  /\ hhex' = SubSeq(hhex, 1, Len(hhex) - 8) \o <<"0","0","0","0","0","0","0","0">>
  /\ tampered' = [kind |-> "tag", byte |-> 0, bit |-> 0]
  /\ UNCHANGED <<prog, builtins, phase, unit, vm, hex, unpacked, packed, dec, hvm,
               constPool, lastCall, physBytes, macCall>>

\* the values written over a byte of the prefix
PrefixBytes == {0, 3, 77, 86, 255}

\* a protected image, its tag possibly overwritten or its end cut off already, with one of
\* its first three bytes replaced
AlterPrefix ==
  /\ phase = "protected"
  /\ tampered.kind \in {"none", "tag", "cut"}
  /\ Len(hhex) <= 2 * MaxTamperLen
  /\ Len(hhex) >= 6
  /\ \E pos \in 0..2, b \in PrefixBytes :
       /\ SetPair(hhex, pos, b) # hhex
       /\ hhex' = SetPair(hhex, pos, b)
       /\ tampered' = [kind |-> "prefix", byte |-> pos, bit |-> b]
  /\ UNCHANGED <<prog, builtins, phase, unit, vm, hex, unpacked, packed, dec, hvm,
               constPool, lastCall, physBytes, macCall>>

\* a protected image of odd length handed to runHexHardened
OddHexHardened ==
  /\ phase = "protected"
  /\ tampered.kind = "none"
  /\ Len(hhex) <= 2 * MaxTamperLen
  /\ hhex' = DropLastDigit(hhex)
  /\ tampered' = [kind |-> "odd", byte |-> 0, bit |-> 0]
  /\ UNCHANGED <<prog, builtins, phase, unit, vm, hex, unpacked, packed, dec, hvm,
               constPool, lastCall, physBytes, macCall>>

\* a protected image holding a non-hex character handed to runHexHardened
NonHexHardened ==
  /\ phase = "protected"
  /\ tampered.kind = "none"
  /\ Len(hhex) <= 2 * MaxTamperLen
  /\ \E i \in 1..MaxAlterPos :
       /\ i <= Len(hhex)
       /\ hhex' = NonHexAt(hhex, i)
       /\ tampered' = [kind |-> "nonhex", byte |-> i, bit |-> 0]
  /\ UNCHANGED <<prog, builtins, phase, unit, vm, hex, unpacked, packed, dec, hvm,
               constPool, lastCall, physBytes, macCall>>

\* the image without its last `cut` bytes: a stream that ends early
Truncate ==
  /\ phase = "protected"
  /\ tampered.kind = "none"
  /\ Len(hhex) <= 2 * MaxTamperLen
  /\ \E cut \in 1..MaxCut :
       /\ 2 * cut <= Len(hhex)
       /\ hhex' = SubSeq(hhex, 1, Len(hhex) - 2 * cut)
       /\ tampered' = [kind |-> "cut", byte |-> cut, bit |-> 0]
  /\ UNCHANGED <<prog, builtins, phase, unit, vm, hex, unpacked, packed, dec, hvm,
               constPool, lastCall, physBytes, macCall>>

\* runHexHardened up to the loop of runVMHardened
RunHexHardened ==
  /\ phase = "protected"
  /\ dec' = decodeHardened(hhex)
  /\ IF dec'.err = NoErr
     THEN hvm' = StartVM(builtins) /\ phase' = "hrunning"
     ELSE hvm' = hvm /\ phase' = "hfailed"
  /\ UNCHANGED <<prog, builtins, unit, vm, hex, unpacked, hhex, packed, tampered,
               constPool, lastCall, physBytes, macCall>>

\* one instruction of runVMHardened
StepHardened ==
  /\ phase = "hrunning"
  /\ Running(hvm)
  /\ hvm' = StepVMHardened(hvm, dec.code, dec.constants, dec.functions, dec.inv, dec.seed)
  /\ UNCHANGED <<prog, builtins, phase, unit, vm, hex, unpacked, hhex, packed, tampered, dec,
               constPool, lastCall, physBytes, macCall>>

Next ==
  \/ Compile
  \/ RunVM
  \/ Step
  \/ PackToHex
  \/ OddHex
  \/ NonHex
  \/ SetByte
  \/ UnpackFromHex
  \/ PackToHexHardened
  \/ FlipCovered
  \/ OverwriteTag
  \/ Truncate
  \/ AlterPrefix
  \/ OddHexHardened
  \/ NonHexHardened
  \/ RunHexHardened
  \/ StepHardened

Spec == Init /\ [][Next]_vars

-----------------------------------------------------------------------------
(* The interpreters on hand-assembled programs: up to MaxOperands values are  *)
(* put on the data stack, one instruction is executed with them, and a tail   *)
(* prints 1 and halts.                                                        *)

MaxOperands == 2

\* the constant pool of the hand-assembled programs: 0, 1, "", "a", undefined, "max"
RawConsts ==
  << Num(0), Num(1), StrV(<<>>), StrV(<<"a">>), UndefV, StrV(<<"m","a","x">>) >>

\* code that leaves one value on the stack: 0, 1, "", "a", undefined, true, false, NaN,
\* a closure, the host function max
Producers ==
  { <<PUSH_CONST, 0>>, <<PUSH_CONST, 1>>, <<PUSH_CONST, 2>>, <<PUSH_CONST, 3>>,
    <<PUSH_CONST, 4>>,
    <<PUSH_CONST, 0, PUSH_CONST, 1, LT>>, <<PUSH_CONST, 1, PUSH_CONST, 0, LT>>,
    <<PUSH_CONST, 0, PUSH_CONST, 0, DIV>>,
    <<MAKE_CLOS, 0>>, <<LOAD_VAR, 5>> }

\* code that leaves one value under the operand on top: 1, the host function max
Fillers == { <<PUSH_CONST, 1>>, <<LOAD_VAR, 5>> }

\* the code putting n such values on the stack
RECURSIVE Below(_)
Below(n) == IF n = 0 THEN {<<>>} ELSE { f \o b : f \in Fillers, b \in Below(n - 1) }

\* the code putting up to MaxOperands values on the stack, any producer for the top one
Prefixes ==
  {<<>>} \cup UNION { { b \o t : b \in Below(n - 1), t \in Producers } : n \in 1..MaxOperands }

\* the offset past every code array of the model, where a fetch finds undefined
PastEnd == 250

\* jumps to a byte that is no opcode: past the end of the code, and onto the immediate of
\* the PUSH_CONST after the jump, at offset `at`; the immediate is 3, no logical opcode, or
\* the mask of its offset under the seed of RawInit, written into the image as byte 0
BadFetches(at) ==
  { <<JUMP, PastEnd>>, <<JUMP, at, PUSH_CONST, 3>>,
    <<JUMP, at, PUSH_CONST, maskAt(SeedOf(1), at)>> }

\* the instruction under test, `skip` the offset a jump of it goes to
TestedAt(skip) ==
  { <<POP>>, <<PRINT>>, <<STORE_VAR, 3>>, <<ADD>>, <<LT>>, <<JUMP_IF_FALSE, skip>>,
    <<CALL, 0>>, <<CALL, 1>>, <<RET>>, <<HALT>> }
  \cup BadFetches(skip - 2)


\* PUSH_CONST 1; PRINT; HALT, and after it the body of function 0: return "a"
RawTail == <<PUSH_CONST, 1, PRINT, HALT, PUSH_CONST, 3, RET>>

\* the program of a prefix and an instruction: a jump skips the PRINT of the tail
RawUnit(prefix, instr) ==
  [ok |-> TRUE, err |-> NoErr, code |-> prefix \o instr \o RawTail, consts |-> RawConsts,
   functions |-> << [entry |-> Len(prefix) + Len(instr) + 4, arity |-> 0,
                     paramNameIdxs |-> <<>>] >>]

RawUnits ==
  UNION { { RawUnit(prefix, instr) : instr \in TestedAt(Len(prefix) + 5) } :
          prefix \in Prefixes }

\* a hand-assembled program handed to runVM, or its protected image to runHexHardened
RawInit ==
  /\ prog = <<"raw", 0>>
  /\ builtins = HostNames
  /\ unit \in RawUnits
  /\ phase \in {"compiled", "protected"}
  /\ vm = IdleVM
  /\ hex = <<>>
  /\ unpacked = NoUnpacked
  /\ packed = [draws |-> Draws(0), seed |-> SeedOf(1)]
  /\ hhex = IF phase = "protected"
            THEN packToHexHardened(unit.code, unit.consts, unit.functions, Draws(0),
                                   SeedOf(1)).hexText
            ELSE <<>>
  /\ tampered = Untouched
  /\ dec = NoDec
  /\ hvm = IdleVM
  /\ constPool = NewConstPool
  /\ lastCall = NoCall
  /\ physBytes = <<>>
  /\ macCall = NoMac

RawNext ==
  \/ RunVM
  \/ Step
  \/ RunHexHardened
  \/ StepHardened

RawSpec == RawInit /\ [][RawNext]_vars

-----------------------------------------------------------------------------
(* A ConstPool object under a sequence of indexOf calls *)

MaxCalls == 4

\* the values handed to indexOf: numbers, strings and the undefined of a missing name
PoolValues ==
  { Num(0), Num(1), StrV(<<"1">>), StrV(<<"a">>), UndefV,
    StrV(<<"u","n","d","e","f","i","n","e","d">>) }

PoolInit ==
  /\ prog = <<"tamper", 0>>
  /\ builtins = HostNames
  /\ phase = "source"
  /\ unit = NoUnit
  /\ vm = IdleVM
  /\ hex = <<>>
  /\ unpacked = NoUnpacked
  /\ hhex = <<>>
  /\ packed = [draws |-> <<>>, seed |-> W(0, 0)]
  /\ tampered = Untouched
  /\ dec = NoDec
  /\ hvm = IdleVM
  /\ constPool = NewConstPool
  /\ lastCall = NoCall
  /\ physBytes = <<>>
  /\ macCall = NoMac

\* constPool.indexOf(v)
IndexOfCall ==
  /\ lastCall.n < MaxCalls
  /\ \E v \in PoolValues :
       /\ constPool' = IndexOf(constPool, v).cp
       /\ lastCall' = [n |-> lastCall.n + 1, v |-> v, i |-> IndexOf(constPool, v).i,
                       before |-> constPool.pool]
  /\ UNCHANGED <<prog, builtins, phase, unit, vm, hex, unpacked, hhex, packed, tampered,
                 dec, hvm, physBytes, macCall>>

PoolNext == IndexOfCall

PoolSpec == PoolInit /\ [][PoolNext]_vars

-----------------------------------------------------------------------------
(* makeOpcodeMap on its own: each call shuffles with draws of its own.  The  *)
(* draw at index i is any j in 0..i for i up to FreeDraws and follows one of *)
(* the families of Draws above it.                                          *)

FreeDraws == 4

FreeChoices == { f \in [1..FreeDraws -> 0..FreeDraws] : \A i \in 1..FreeDraws : f[i] <= i }

MapDraws ==
  { [i \in 1..(Len(LOGICAL_OPS) - 1) |-> IF i <= FreeDraws THEN f[i] ELSE Draws(k)[i]] :
      f \in FreeChoices, k \in 0..MaxDraw }

MapInit ==
  /\ prog = <<"tamper", 0>>
  /\ builtins = HostNames
  /\ phase = "source"
  /\ unit = NoUnit
  /\ vm = IdleVM
  /\ hex = <<>>
  /\ unpacked = NoUnpacked
  /\ hhex = <<>>
  /\ packed = [draws |-> <<>>, seed |-> W(0, 0)]
  /\ tampered = Untouched
  /\ dec = NoDec
  /\ hvm = IdleVM
  /\ constPool = NewConstPool
  /\ lastCall = NoCall
  /\ physBytes = <<>>
  /\ macCall = NoMac

\* makeOpcodeMap(), one call in a behaviour: the result owes nothing to an earlier call
MakeOpcodeMapCall ==
  /\ physBytes = <<>>
  /\ \E draws \in MapDraws : physBytes' = makeOpcodeMap(draws)
  /\ UNCHANGED <<prog, builtins, phase, unit, vm, hex, unpacked, hhex, packed, tampered,
                 dec, hvm, constPool, lastCall, macCall>>

MapNext == MakeOpcodeMapCall

MapSpec == MapInit /\ [][MapNext]_vars

-----------------------------------------------------------------------------
(* simpleMAC on its own: a byte sequence and the same sequence with one byte *)
(* replaced by any other byte.                                               *)

MaxMacLen == 2

MacBytes == {0, 1, 128, 255}

MacInputs == UNION { [1..n -> MacBytes] : n \in 1..MaxMacLen }

\* bytes with the byte b at its 1-based place `at`
ReplaceAt(bytes, at, b) == [i \in 1..Len(bytes) |-> IF i = at THEN b ELSE bytes[i]]

MacInit ==
  /\ prog = <<"tamper", 0>>
  /\ builtins = HostNames
  /\ phase = "source"
  /\ unit = NoUnit
  /\ vm = IdleVM
  /\ hex = <<>>
  /\ unpacked = NoUnpacked
  /\ hhex = <<>>
  /\ packed = [draws |-> <<>>, seed |-> W(0, 0)]
  /\ tampered = Untouched
  /\ dec = NoDec
  /\ hvm = IdleVM
  /\ constPool = NewConstPool
  /\ lastCall = NoCall
  /\ physBytes = <<>>
  /\ macCall = NoMac

\* simpleMAC(bytes) and simpleMAC of bytes with one byte replaced, one pair in a
\* behaviour: a tag owes nothing to an earlier call
SimpleMACCalls ==
  /\ macCall.n = 0
  /\ \E bytes \in MacInputs :
       \E at \in 1..Len(bytes) : \E b \in (0..255) \ {bytes[at]} :
         macCall' = [n |-> 1, bytes |-> bytes, at |-> at, byte |-> b,
                     tag |-> simpleMAC(bytes), tagAt |-> simpleMAC(ReplaceAt(bytes, at, b))]
  /\ UNCHANGED <<prog, builtins, phase, unit, vm, hex, unpacked, hhex, packed, tampered,
                 dec, hvm, constPool, lastCall, physBytes>>

MacNext == SimpleMACCalls

MacSpec == MacInit /\ [][MacNext]_vars

-----------------------------------------------------------------------------
(* Properties *)

Done(m) == m.status \in {"halted", "returned", "error"}

\* runVM has returned or thrown
PlainDone == phase \notin {"source", "compiled", "rejected"} /\ Done(vm)

\* runHexHardened has returned or thrown
HardenedDone == phase = "hfailed" \/ (phase = "hrunning" /\ Done(hvm))

\* the last four bytes of the image differ from simpleMAC of the bytes from 3 to there
TagMismatch(hexText) ==
  SliceJs(FromHex(hexText), -4, Big) # simpleMAC(SliceJs(FromHex(hexText), 3, -4))

\* the plain image given to unpackFromHex is the one packToHex returned
PlainIntact == phase = "unpacked" => tampered.kind = "none"

\* C1: for every source compile accepts, runHexHardened on the packToHexHardened image
\* (every drawn permutation and seed) ends as runVM does on the compiled unit: the same
\* sequence of printed values and the same top-level return value.
C1_SameObservations ==
  (HardenedDone /\ tampered.kind = "none")
    => /\ phase = "hrunning"
       /\ hvm.out = vm.out
       /\ hvm.result = vm.result
       /\ hvm.status = vm.status

\* C2: after a single-bit flip of a byte between the 3-byte prefix and the trailing tag,
\* runHexHardened fails with the integrity error.
C2_FlipDetected ==
  (HardenedDone /\ tampered.kind = "flip")
    => (phase = "hfailed" /\ dec.err = IntegrityFailed)

\* C3: when the trailing tag of the image differs from the tag recomputed over the covered
\* bytes, runHexHardened throws the integrity error and no instruction has run: nothing is
\* printed and no builtin is called.
C3_MismatchStopsBeforeExecution ==
  (phase \in {"hrunning", "hfailed"} /\ TagMismatch(hhex))
    => /\ phase = "hfailed"
       /\ dec.err = IntegrityFailed
       /\ hvm.out = <<>>
       /\ hvm.calls = <<>>

\* C4: unpackFromHex(packToHex(code, consts, functions)) gives back the code, the constant
\* pool and the function table of every unit compile produces.
C4_PlainRoundTrip ==
  (phase \notin {"source", "compiled", "rejected", "running", "packed"} /\ PlainIntact)
    => /\ unpacked.err = NoErr
       /\ unpacked.code = unit.code
       /\ unpacked.constants = unit.consts
       /\ unpacked.functions = unit.functions

\* C5: the counter-factory program compiles, and runVM prints 1, 2, 101, 102.
C5_CounterFactory ==
  (prog[1] = "counter")
    => /\ phase # "rejected"
       /\ PlainDone => vm.out = <<Num(1), Num(2), Num(101), Num(102)>>

\* C6: a closure called outside the function that made it reads the environment it
\* captured: it sees a binding added there after it was made (1, not the caller's 5), it
\* sees a later redefinition in an ancestor (1, then 2), and it does not see a binding that
\* only its caller has (Undefined variable).
C6_ClosureReadsCapturedEnv ==
  /\ (prog[1] = "capture" /\ PlainDone) => (vm.status = "halted" /\ vm.out = <<Num(1)>>)
  /\ (prog[1] = "shared" /\ PlainDone) => (vm.status = "halted" /\ vm.out = <<Num(1), Num(2)>>)
  /\ (prog[1] = "callerOnly" /\ PlainDone)
       => (vm.status = "error" /\ vm.err = "Undefined variable: q" /\ vm.out = <<Num(1)>>)
  /\ (prog[1] = "capture" /\ HardenedDone /\ tampered.kind = "none")
       => (phase = "hrunning" /\ hvm.out = <<Num(1)>>)

C6_Witness ==
  /\ prog[1] = "capture"
  /\ phase = "running"
  /\ Len(vm.callStack) = 2
  /\ vm.S # <<>>
  /\ vm.S[Len(vm.S)] = Num(1)

\* C7: in the nested program the body of inner runs on the chain
\* activation -> activation of outer (captured) -> global, and outer(3) prints 25.
C7_LexicalChain ==
  (prog[1] = "nested")
    => /\ (phase = "running" /\ Running(vm) /\ Len(vm.callStack) = 2)
            => /\ vm.envs[vm.env].parent = vm.callStack[2].savedEnv
               /\ vm.envs[vm.callStack[2].savedEnv].parent = 1
               /\ vm.callStack[1].savedEnv = 1
       /\ PlainDone => (vm.status = "halted" /\ vm.out = <<Num(25)>>)
       /\ (HardenedDone /\ tampered.kind = "none")
            => (phase = "hrunning" /\ hvm.out = <<Num(25)>>)

C7_Witness ==
  /\ prog[1] = "nested"
  /\ phase = "running"
  /\ vm.status = "halted"
  /\ vm.out = <<Num(25)>>

RECURSIVE Factorial(_)
Factorial(n) == IF n = 0 THEN 1 ELSE n * Factorial(n - 1)

\* the environment of the i-th activation on the way to the running one
Activation(m, i) == IF i = Len(m.callStack) THEN m.env ELSE m.callStack[i + 1].savedEnv

\* C8: in fact(N) the i-th nested activation has an environment of its own in which n is
\* N - i + 1, before and after the calls it makes, and the program prints N!.
C8_OwnParameter ==
  (prog[1] = "fact")
    => /\ (phase = "running" /\ Running(vm))
            => /\ \A i \in 1..Len(vm.callStack) :
                    /\ <<"n">> \in DOMAIN vm.envs[Activation(vm, i)].vars
                    /\ vm.envs[Activation(vm, i)].vars[<<"n">>] = Num(prog[2] - i + 1)
               /\ \A i, j \in 1..Len(vm.callStack) :
                    i # j => Activation(vm, i) # Activation(vm, j)
       /\ PlainDone => (vm.status = "halted" /\ vm.out = <<Num(Factorial(prog[2]))>>)

C8_Witness ==
  /\ prog = <<"fact", 5>>
  /\ phase = "running"
  /\ vm.status = "halted"
  /\ vm.out = <<Num(120)>>

\* a CALL argc whose callee is a host function: the step from m to m2
HostCall(m, m2, code) ==
  LET argc == At(code, m.ip + 1)
      n == Len(m.S)
  IN (/\ Running(m)
      /\ At(code, m.ip) = CALL
      /\ argc >= 0
      /\ argc < n
      /\ m.S[n - argc].t = "host")
       => /\ Len(m2.S) = n - argc
          /\ SubSeq(m2.S, 1, n - argc - 1) = SubSeq(m.S, 1, n - argc - 1)
          /\ m2.S[n - argc] = HostApply(m.S[n - argc].name, SubSeq(m.S, n - argc + 1, n))
          /\ m2.calls = Append(m.calls, [name |-> m.S[n - argc].name,
                                          args |-> SubSeq(m.S, n - argc + 1, n)])
          /\ m2.callStack = m.callStack
          /\ m2.env = m.env
          /\ m2.envs = m.envs
          /\ m2.ip = m.ip + 2
          /\ m2.status = "running"
          /\ m2.out = m.out

\* C9: a CALL of a host function invokes it with the arguments in push order, leaves its
\* return value (undefined if it returns nothing) in place of callee and arguments, pushes
\* no frame and leaves the environment alone, ip going past the CALL only; the host
\* program prints 102.
C9_HostCall ==
  [][ /\ (phase = "running") => HostCall(vm, vm', unit.code)
      /\ (prog[1] = "host" /\ phase' = "running" /\ Done(vm'))
           => /\ vm'.out = <<Num(102)>>
              /\ vm'.calls = <<[name |-> <<"m","a","x">>, args |-> <<Num(30), Num(102)>>]>>
      /\ (prog[1] = "nop" /\ phase' = "running" /\ Done(vm'))
           => vm'.out = <<UndefV, Num(9)>> ]_vars

C9_Witness ==
  /\ prog[1] = "host"
  /\ phase = "running"
  /\ Done(vm)
  /\ vm.out = <<Num(102)>>
  /\ Len(vm.calls) = 1

\* C11: when the stream ends before the lengths it declares are served, in particular when
\* fewer than four tag bytes follow the declared code, runHexHardened throws and no
\* instruction runs.
C11_TruncatedRejected ==
  (tampered.kind = "cut" /\ phase \in {"hrunning", "hfailed"})
    => /\ phase = "hfailed"
       /\ hvm.out = <<>>
       /\ hvm.calls = <<>>

\* C12: unpackFromHex, and runHexHardened before it reads anything, reject a text with an
\* odd number of hex digits or with a character that is no hex digit.
C12_MalformedHexRejected ==
  (tampered.kind \in {"odd", "nonhex"})
    => /\ phase = "unpacked" => unpacked.err # NoErr
       /\ phase \in {"hrunning", "hfailed"} => phase = "hfailed"

\* one instruction of a decoded code array checked at r.i: [i, ok]
indexStep(u, r) ==
  LET op == u.code[r.i + 1]
      imm == At(u.code, r.i + 1)
  IN [i |-> IF HasImmediate(op) THEN r.i + 2 ELSE r.i + 1,
      ok |-> /\ op \in {PUSH_CONST, LOAD_VAR, STORE_VAR}
                  => (imm >= 0 /\ imm < Len(u.constants))
             /\ op = MAKE_CLOS => (imm >= 0 /\ imm < Len(u.functions))]

\* the instructions of the code array from r.i on, at most n of them, taken half by half
RECURSIVE indexLoop(_, _, _)
indexLoop(u, r, n) ==
  IF n = 0 \/ ~r.ok \/ r.i >= Len(u.code) THEN r
  ELSE IF n = 1 THEN indexStep(u, r)
  ELSE indexLoop(u, indexLoop(u, r, n \div 2), n - (n \div 2))

\* every index of a decoded image is in range
IndicesInRange(u) ==
  /\ \A k \in 1..Len(u.functions) :
       /\ u.functions[k].entry >= 0 /\ u.functions[k].entry < Len(u.code)
       /\ \A j \in 1..Len(u.functions[k].paramNameIdxs) :
            /\ u.functions[k].paramNameIdxs[j] >= 0
            /\ u.functions[k].paramNameIdxs[j] < Len(u.constants)
  /\ indexLoop(u, [i |-> 0, ok |-> TRUE], Len(u.code)).ok

\* C13: an image that unpackFromHex decodes without an error has every parameter-name
\* index below the constant count, every entry offset below the code length, and every
\* immediate of PUSH_CONST, LOAD_VAR, STORE_VAR, MAKE_CLOS inside its table.
C13_IndicesChecked ==
  (phase = "unpacked" /\ tampered.kind = "index" /\ unpacked.err = NoErr)
    => IndicesInRange(unpacked)

\* the sources that use an object literal, an array literal, a for-loop or a member access
Unsupported == {"objlit", "emptyobj", "arrlit", "forloop", "forplain", "member", "complex"}

\* C14: compile throws, and returns no program, for every source that uses an object
\* literal, an array literal, a for-loop or a member access, complexExample among them.
C14_UnsupportedRejected ==
  (prog[1] \in Unsupported /\ phase # "source")
    => /\ phase = "rejected"
       /\ ~unit.ok
       /\ unit.err # NoErr
       /\ unit.code = <<>>

C14_Witness ==
  /\ prog[1] = "complex"
  /\ phase = "rejected"
  /\ unit.err = "Unexpected char :"

\* the kind and the textual form of a constant
KindText(v) == <<TypeOf(v), ToStr(v)>>

\* the 0-based places of the pool holding a constant of the kind and text of v
Places(pool, v) == { k \in 0..(Len(pool) - 1) : KindText(pool[k + 1]) = KindText(v) }

\* C15: after any sequence of indexOf calls no two entries of the pool have the same kind
\* and text; a call with a kind and text already present returns the index of its first
\* insertion and leaves the pool as it was; a call with a new one appends it and returns
\* its index, the entries before it staying in place; the number 1 and the string "1" are
\* two entries.
C15_PoolDeduplicates ==
  /\ \A j, k \in 1..Len(constPool.pool) :
       KindText(constPool.pool[j]) = KindText(constPool.pool[k]) => j = k
  /\ lastCall.n > 0 =>
       /\ SubSeq(constPool.pool, 1, Len(lastCall.before)) = lastCall.before
       /\ Places(constPool.pool, lastCall.v) = {lastCall.i}
       /\ Places(lastCall.before, lastCall.v) # {} => constPool.pool = lastCall.before
       /\ Places(lastCall.before, lastCall.v) = {} => constPool.pool = Append(lastCall.before, lastCall.v)
  /\ (Places(constPool.pool, Num(1)) # {} /\ Places(constPool.pool, StrV(<<"1">>)) # {})
       => Places(constPool.pool, Num(1)) # Places(constPool.pool, StrV(<<"1">>))

C15_Witness ==
  /\ lastCall.n = MaxCalls
  /\ lastCall.v = Num(1)
  /\ lastCall.i = 0
  /\ constPool.pool = <<Num(1), StrV(<<"1">>), UndefV>>
  /\ constPool.pool = lastCall.before

\* the 0-based offsets of the instructions of a code array that carry an immediate:
\* one instruction taken at r.i, on [i, at]
placeStep(code, r) ==
  IF HasImmediate(code[r.i + 1])
  THEN [i |-> r.i + 2, at |-> r.at \cup {r.i}]
  ELSE [i |-> r.i + 1, at |-> r.at]

RECURSIVE placeLoop(_, _, _)
placeLoop(code, r, n) ==
  IF n = 0 \/ r.i >= Len(code) THEN r
  ELSE IF n = 1 THEN placeStep(code, r)
  ELSE placeLoop(code, placeLoop(code, r, n \div 2), n - (n \div 2))

ImmediatePlaces(code) == placeLoop(code, [i |-> 0, at |-> {}], Len(code)).at

\* the code array packToHexHardened writes for the code array `code`
CodedBytes(code, phys, seed) ==
  encodeImmediates(code, rewriteCodeWithMap(code, phys).out, seed)

\* the opcode byte and the immediate byte of the instruction at offset i
InstrBytes(coded, i) == <<At(coded, i), At(coded, i + 1)>>

\* the offsets among `places` where two coded arrays hold the same instruction bytes
SamePlaces(places, c1, c2) == { i \in places : InstrBytes(c1, i) = InstrBytes(c2, i) }

\* the instructions carrying an immediate that two packings code by the same bytes
SameCoded(code, places, phys, seed, phys0, seed0) ==
  SamePlaces(places, CodedBytes(code, phys, seed), CodedBytes(code, phys0, seed0))

\* the instructions whose opcode two permutations send to the same byte and whose
\* immediate two seeds mask by the same byte
SameKey(code, places, phys, seed, phys0, seed0) ==
  { i \in places : /\ MapOp(phys, code[i + 1]) = MapOp(phys0, code[i + 1])
                   /\ maskAt(seed, i + 1) = maskAt(seed0, i + 1) }

\* no instruction carrying an immediate is coded alike by this packing and another one
AllDiffer(code, places, phys0, seed0) ==
  \A draws \in DrawChoices, seed \in SeedChoices :
    (seed # seed0 \/ makeOpcodeMap(draws) # phys0)
      => SameCoded(code, places, makeOpcodeMap(draws), seed, phys0, seed0) = {}

\* this packing and any other one code alike the instructions they have the same keys for
DifferByKey(code, places, phys0, seed0) ==
  \A draws \in DrawChoices, seed \in SeedChoices :
    SameCoded(code, places, makeOpcodeMap(draws), seed, phys0, seed0)
      = SameKey(code, places, makeOpcodeMap(draws), seed, phys0, seed0)

\* C16 as stated: packed with another seed or another permutation, the coded bytes of every
\* instruction that carries an immediate differ from those of this image.
C16_EveryInstructionDiffers ==
  (phase = "protected" /\ tampered.kind = "none")
    => AllDiffer(unit.code, ImmediatePlaces(unit.code), makeOpcodeMap(packed.draws),
                 packed.seed)

\* runVMHardened from state m on the decoded image d, at most n instructions, by halves
RECURSIVE runHardened(_, _, _)
runHardened(m, d, n) ==
  IF n = 0 \/ ~Running(m) THEN m
  ELSE IF n = 1
       THEN StepVMHardened(m, d.code, d.constants, d.functions, d.inv, d.seed)
       ELSE runHardened(runHardened(m, d, n \div 2), d, n - (n \div 2))

\* what runHexHardened lets its caller observe
Outcome(err, m) ==
  [err |-> err, out |-> m.out, calls |-> m.calls, status |-> m.status, result |-> m.result]

\* runHexHardened on the image of u packed with the identity permutation and seed 0
ReferenceOutcome(d) ==
  IF d.err # NoErr THEN Outcome(d.err, IdleVM)
  ELSE Outcome(NoErr, runHardened(StartVM(builtins), d, MaxRun))

ReferenceImage(u) ==
  packToHexHardened(u.code, u.consts, u.functions, Draws(1), SeedOf(0)).hexText

\* C16, amended: packed with another seed or another permutation, the coded bytes of an
\* instruction that carries an immediate differ from those of this image exactly when
\* the two permutations give its opcode different bytes or the two seeds give different
\* masks at the offset of its immediate; the execution of every image is observed alike.
C16_DiffersWhereKeysDiffer ==
  /\ (phase = "protected" /\ tampered.kind = "none")
       => DifferByKey(unit.code, ImmediatePlaces(unit.code), makeOpcodeMap(packed.draws),
                      packed.seed)
  /\ (HardenedDone /\ tampered.kind = "none")
       => Outcome(dec.err, hvm) = ReferenceOutcome(decodeHardened(ReferenceImage(unit)))

C16_Witness ==
  /\ phase = "hrunning" /\ Done(hvm) /\ tampered.kind = "none"
  /\ hvm.out # <<>>
  /\ packed.draws = OneSwap
  /\ SameCoded(unit.code, ImmediatePlaces(unit.code), makeOpcodeMap(Draws(1)), packed.seed,
               makeOpcodeMap(OneSwap), packed.seed)
       \notin {{}, ImmediatePlaces(unit.code)}

\* the failing CALL left ip past the instruction and pushed no frame, entered no
\* environment, created none and printed nothing
NothingEntered(m, m2) ==
  /\ m2.status = "error"
  /\ m2.callStack = m.callStack
  /\ m2.env = m.env
  /\ m2.envs = m.envs
  /\ m2.ip = m.ip + 2
  /\ m2.out = m.out

\* a CALL argc whose callee is no host function: the step from m to m2
FailingCall(m, m2, code) ==
  LET argc == At(code, m.ip + 1)
      n == Len(m.S)
      callee == IF argc < n THEN m.S[n - argc] ELSE UndefV
  IN (/\ Running(m)
      /\ At(code, m.ip) = CALL
      /\ argc >= 0)
       => /\ (callee.t = "fn" /\ callee.arity # argc)
               => /\ m2.err = "arity mismatch: expect " \o NumText(callee.arity)
                               \o ", got " \o NumText(argc)
                  /\ NothingEntered(m, m2)
          /\ callee.t \notin {"fn", "host"}
               => /\ m2.err = "Not callable"
                  /\ NothingEntered(m, m2)

\* C17: CALL n on a closure of another arity fails with "arity mismatch: expect <arity>,
\* got <n>", CALL on a value that is neither a host function nor a closure fails with
\* "Not callable"; neither pushes a frame, changes the environment or jumps.
C17_FailingCall ==
  [][ /\ (phase = "running") => FailingCall(vm, vm', unit.code)
      /\ (prog[1] = "arity" /\ phase' = "running" /\ Done(vm'))
           => /\ vm'.err = "arity mismatch: expect 1, got 2"
              /\ vm'.out = <<Num(1)>>
      /\ (prog[1] = "arityInner" /\ phase' = "running" /\ Done(vm'))
           => /\ vm'.err = "arity mismatch: expect 1, got 0"
              /\ Len(vm'.callStack) = 1
      /\ (prog[1] \in {"notCallable", "notCallableInner"} /\ phase' = "running" /\ Done(vm'))
           => vm'.err = "Not callable" ]_vars

C17_Witness ==
  /\ prog[1] = "arityInner"
  /\ phase = "running"
  /\ vm.status = "error"
  /\ vm.err = "arity mismatch: expect 1, got 0"
  /\ Len(vm.callStack) = 1
  /\ vm.env # 1

\* C18: runHexHardened throws "Bad magic number" when the first two bytes are not 'V', 'M'
\* and the version error when they are and the third byte is not 3, whatever the rest of
\* the image and its tag are.
C18_PrefixCheckedFirst ==
  (tampered.kind = "prefix" /\ phase \in {"hrunning", "hfailed"})
    => /\ (ByteAt(FromHex(hhex), 0) # 86 \/ ByteAt(FromHex(hhex), 1) # 77)
            => (phase = "hfailed" /\ dec.err = "Bad magic number")
       /\ (ByteAt(FromHex(hhex), 0) = 86 /\ ByteAt(FromHex(hhex), 1) = 77
             /\ ByteAt(FromHex(hhex), 2) # 3)
            => /\ phase = "hfailed"
               /\ dec.err
                    = "Bad version - expected VMP protected format v3 (with immediate encryption)"

C18_Witness ==
  /\ tampered = [kind |-> "prefix", byte |-> 2, bit |-> 0]
  /\ phase = "hfailed"
  /\ dec.err = BadVersion
  /\ TagMismatch(hhex)

\* C19: conditionalExample compiles and runs without an error and prints the messages for
\* 5, 0 and -3 and then those for 95, 75, 65 and 45.
C19_ConditionalExample ==
  (prog[1] = "conditional" /\ phase # "source")
    => /\ phase # "rejected"
       /\ unit.ok
       /\ PlainDone
            => /\ vm.status = "halted"
               /\ vm.out = << StrV(<<"p","o","s","i","t","i","v","e">>), StrV(<<"z","e","r","o">>),
                              StrV(<<"n","e","g","a","t","i","v","e">>),
                              StrV(<<"e","x","c","e","l","l","e","n","t">>),
                              StrV(<<"g","o","o","d">>), StrV(<<"p","a","s","s">>),
                              StrV(<<"f","a","i","l">>) >>

\* a STORE_VAR idx: the step from m to m2
StoreStep(m, m2, code, consts) ==
  LET name == ToStr(readConst(consts, At(code, m.ip + 1)))
      e == m.env
  IN (Running(m) /\ At(code, m.ip) = STORE_VAR)
       => /\ m2.env = e
          /\ DOMAIN m2.envs = DOMAIN m.envs
          /\ \A o \in DOMAIN m.envs : o # e => m2.envs[o] = m.envs[o]
          /\ m2.envs[e].parent = m.envs[e].parent
          /\ DOMAIN m2.envs[e].vars = DOMAIN m.envs[e].vars \cup {name}
          /\ m2.envs[e].vars[name] = Top(m.S)
          /\ \A x \in DOMAIN m.envs[e].vars :
               x # name => m2.envs[e].vars[x] = m.envs[e].vars[x]

\* C20: STORE_VAR binds the name in the current environment and leaves every other
\* environment as it was, also when an ancestor binds the same name; the shadow program
\* prints 2 for the local g and 1 for the global one.
C20_StoreWritesCurrent ==
  [][ /\ (phase = "running") => StoreStep(vm, vm', unit.code, unit.consts)
      /\ (prog[1] = "shadow" /\ phase' = "running" /\ Done(vm'))
           => vm'.out = <<Num(2), Num(1)>> ]_vars

C20_Witness ==
  /\ prog[1] = "shadow"
  /\ phase = "running"
  /\ vm.env # 1
  /\ <<"g">> \in DOMAIN vm.envs[vm.env].vars
  /\ vm.envs[vm.env].vars[<<"g">>] = Num(2)
  /\ vm.envs[1].vars[<<"g">>] = Num(1)

\* the k-th environment on the parent chain of e, e itself for k = 0; 0 past its end
RECURSIVE Up(_, _, _)
Up(envs, e, k) == IF k = 0 \/ e = 0 THEN e ELSE Up(envs, envs[e].parent, k - 1)

\* the k-th environment of the chain of e binds name and none nearer does
Innermost(envs, e, name, k) ==
  /\ Up(envs, e, k) # 0
  /\ name \in DOMAIN envs[Up(envs, e, k)].vars
  /\ \A j \in 0..(k - 1) : name \notin DOMAIN envs[Up(envs, e, j)].vars

\* a LOAD_VAR idx: the step from m to m2
LoadStep(m, m2, code, consts) ==
  LET name == ToStr(readConst(consts, At(code, m.ip + 1)))
      depth == Len(m.envs)
  IN (Running(m) /\ At(code, m.ip) = LOAD_VAR)
       => /\ m2.envs = m.envs /\ m2.env = m.env /\ m2.callStack = m.callStack
          /\ \A k \in 0..depth :
               Innermost(m.envs, m.env, name, k)
                 => /\ m2.status = "running"
                    /\ m2.S = Append(m.S, m.envs[Up(m.envs, m.env, k)].vars[name])
                    /\ m2.ip = m.ip + 2
          /\ (\A k \in 0..depth : ~Innermost(m.envs, m.env, name, k))
               => /\ m2.status = "error"
                  /\ m2.err = "Undefined variable: " \o Text(name)
                  /\ m2.S = m.S

\* C21: LOAD_VAR pushes the value of the nearest binding of the name on the parent chain
\* of the current environment; when no environment of the chain binds it, the run fails
\* with "Undefined variable: <name>" and the stack is as it was.
C21_LoadWalksChain ==
  [][ (phase = "running") => LoadStep(vm, vm', unit.code, unit.consts) ]_vars

C21_Witness ==
  /\ prog[1] = "shadow"
  /\ phase = "running"
  /\ Running(vm)
  /\ vm.env # 1
  /\ At(unit.code, vm.ip - 2) = LOAD_VAR
  /\ vm.S # <<>>
  /\ vm.S[Len(vm.S)] = Num(2)
  /\ vm.envs[1].vars[<<"g">>] = Num(1)

\* runVM from m until the call stack is no deeper than depth, at most n instructions, by
\* halves
RECURSIVE runToDepth(_, _, _, _)
runToDepth(m, u, depth, n) ==
  IF n = 0 \/ ~Running(m) \/ Len(m.callStack) <= depth THEN m
  ELSE IF n = 1 THEN StepVM(m, u.code, u.consts, u.functions)
  ELSE runToDepth(runToDepth(m, u, depth, n \div 2), u, depth, n - (n \div 2))

\* m is about to execute CALL argc on a closure of arity argc
ClosureCall(m, code) ==
  /\ Running(m)
  /\ At(code, m.ip) = CALL
  /\ At(code, m.ip + 1) >= 0
  /\ At(code, m.ip + 1) < Len(m.S)
  /\ m.S[Len(m.S) - At(code, m.ip + 1)].t = "fn"
  /\ m.S[Len(m.S) - At(code, m.ip + 1)].arity = At(code, m.ip + 1)

\* m1 is m after its CALL: one frame more, holding the offset after the CALL and the
\* environment of the caller
FramePushed(m, m1, callee) ==
  /\ m1.callStack = Append(m.callStack, [retIp |-> m.ip + 2, savedEnv |-> m.env])
  /\ m1.ip = callee.entry
  /\ m1.env \notin DOMAIN m.envs
  /\ m1.envs[m1.env].parent = callee.closEnv

\* m3 is m1 run on until the frame pushed by the CALL of m is popped, if it ever is: the
\* caller is resumed after the CALL with its frames and environment, a value standing
\* where the callee and its argc arguments stood
FramePopped(m, m3, argc) ==
  (Running(m3) /\ Len(m3.callStack) <= Len(m.callStack))
    => /\ m3.callStack = m.callStack
       /\ m3.ip = m.ip + 2
       /\ m3.env = m.env
       /\ Len(m3.S) = Len(m.S) - argc
       /\ SubSeq(m3.S, 1, Len(m.S) - argc - 1) = SubSeq(m.S, 1, Len(m.S) - argc - 1)

Paired(m, m1, u, argc) ==
  /\ FramePushed(m, m1, m.S[Len(m.S) - argc])
  /\ FramePopped(m, runToDepth(m1, u, Len(m.callStack), MaxRun), argc)

\* C22: a closure call pushes one frame with the offset after the CALL and the current
\* environment; the RET that pops this frame resumes there with that environment, the
\* frames below as they were and the returned value in place of callee and arguments.
C22_CallReturnPaired ==
  (phase = "running" /\ ClosureCall(vm, unit.code))
    => Paired(vm, StepVM(vm, unit.code, unit.consts, unit.functions), unit,
              At(unit.code, vm.ip + 1))

C22_Witness ==
  /\ prog = <<"fact", 3>>
  /\ phase = "running"
  /\ Running(vm)
  /\ Len(vm.callStack) = 3
  /\ At(unit.code, vm.ip - 2) = CALL
  /\ vm.S # <<>>
  /\ vm.S[Len(vm.S)] = Num(1)
  /\ vm.envs[vm.env].vars[<<"n">>] = Num(1)

\* a RET with no frame on the call stack: the step from m to m2, op the logical opcode m
\* is about to execute
TopLevelRet(m, m2, op) ==
  (Running(m) /\ op = RET /\ m.callStack = <<>>)
    => /\ m2.status = "returned"
       /\ m2.result = (IF m.S = <<>> THEN UndefV ELSE m.S[Len(m.S)])
       /\ m2.out = m.out
       /\ m2.calls = m.calls

\* C23: RET with an empty call stack ends the run, its result the popped value, undefined
\* when the data stack is empty; nothing is executed after it.
C23_TopLevelReturn ==
  [][ /\ (phase = "running") => TopLevelRet(vm, vm', At(unit.code, vm.ip))
      /\ (phase = "hrunning")
           => TopLevelRet(hvm, hvm', InvGet(dec.inv, At(dec.code, hvm.ip)))
      /\ (phase = "running" /\ Done(vm)) => vm' = vm
      /\ (phase = "hrunning" /\ Done(hvm)) => hvm' = hvm ]_vars

C23_Witness ==
  /\ phase = "running"
  /\ unit.code[1] = RET
  /\ vm.status = "returned"
  /\ vm.result = UndefV
  /\ vm.out = <<>>
  /\ vm.ip = 1

\* the result a run ended by HALT has according to C24
HaltResult(m) ==
  m.status = "halted" => m.result = (IF m.S = <<>> THEN UndefV ELSE m.S[Len(m.S)])

\* C24: when HALT executes, the result of the run is the value on top of the data stack,
\* undefined when the stack is empty, in runVM and in runVMHardened.
C24_HaltReturnsTop ==
  /\ (phase = "running") => HaltResult(vm)
  /\ (phase = "hrunning") => HaltResult(hvm)

\* the operands the instruction op with immediate imm takes from the data stack
Needs(op, imm) ==
  CASE op \in {POP, PRINT, STORE_VAR, JUMP_IF_FALSE} -> 1
    [] op \in BinaryOps -> 2
    [] op = CALL -> imm + 1
    [] OTHER -> 0

\* an instruction with too few operands fails: the step from m to m2
Underflow(m, m2, op, imm) ==
  (Running(m) /\ op \in {POP, PRINT, STORE_VAR, JUMP_IF_FALSE, CALL} \cup BinaryOps
     /\ Len(m.S) < Needs(op, imm))
    => /\ m2.status = "error"
       /\ m2.out = m.out

\* C25: POP, PRINT, STORE_VAR, a binary operator, JUMP_IF_FALSE and CALL n fail the run
\* when the data stack holds fewer values than they take.
C25_UnderflowFails ==
  [][ (phase = "running")
        => Underflow(vm, vm', At(unit.code, vm.ip), At(unit.code, vm.ip + 1)) ]_vars

\* the body of function f in the code: from its entry to the target of the JUMP that
\* parseFunctionDecl emits just before the entry
InBody(code, f, i) == f.entry <= i /\ i < At(code, f.entry - 1)

InSomeBody(u, i) == \E k \in 1..Len(u.functions) : InBody(u.code, u.functions[k], i)

\* C27: in a run of a compiled program ip is inside a function body only while the call
\* stack is not empty.
C27_BodiesSkipped ==
  (phase = "running" /\ prog[1] # "raw" /\ InSomeBody(unit, vm.ip)) => vm.callStack # <<>>

\* the top level of the factorial program has just jumped over a body that has
\* instructions in it
C27_Witness ==
  /\ phase = "running"
  /\ prog = <<"fact", 3>>
  /\ Running(vm)
  /\ vm.callStack = <<>>
  /\ vm.ip = At(unit.code, unit.functions[1].entry - 1)
  /\ vm.ip > unit.functions[1].entry + 2
  /\ At(unit.code, unit.functions[1].entry - 2) = JUMP
  /\ vm.out = <<>>

\* the instructions that end a statement, a condition or a block of compiled code: the
\* instruction executed after one of them is at statement level
Enders == {STORE_VAR, PRINT, POP, JUMP_IF_FALSE, JUMP}

\* s = [m, ok] and m2 the state after the instruction op of s.m: ok stays true when m2,
\* at statement level in the body entered at call depth `depth`, has the height h
balNext(s, m2, op, depth, h) ==
  [m |-> m2,
   ok |-> s.ok /\ ((op \in Enders /\ Running(m2) /\ Len(m2.callStack) = depth)
                     => Len(m2.S) = h)]

\* the run from s.m until the body entered at call depth `depth` is left, at most n
\* instructions, by halves
RECURSIVE balRun(_, _, _, _, _)
balRun(s, u, depth, h, n) ==
  IF n = 0 \/ ~Running(s.m) \/ Len(s.m.callStack) < depth THEN s
  ELSE IF n = 1
    THEN balNext(s, StepVM(s.m, u.code, u.consts, u.functions), At(u.code, s.m.ip), depth, h)
  ELSE balRun(balRun(s, u, depth, h, n \div 2), u, depth, h, n - (n \div 2))

\* m2 is m after its instruction op with immediate imm: op has its operands, HALT finds
\* the stack empty, the top level is at height 0 after an ender, and the body a CALL
\* enters is at its entry height after every ender
Balanced(m, m2, u, op, imm) ==
  /\ Len(m.S) >= Needs(op, imm)
  /\ (op = HALT) => m.S = <<>>
  /\ (op \in Enders /\ Running(m2) /\ m2.callStack = <<>>) => m2.S = <<>>
  /\ (ClosureCall(m, u.code) /\ Running(m2))
       => balRun([m |-> m2, ok |-> TRUE], u, Len(m2.callStack), Len(m2.S), MaxRun).ok

\* C28: in a run of a compiled program the data stack is empty at the first instruction of
\* every top-level statement and at the final HALT, has its height of entry at the first
\* instruction of every statement of a function body, and is never popped when empty.
C28_StackBalanced ==
  (phase = "running" /\ prog[1] # "raw" /\ Running(vm))
    => Balanced(vm, StepVM(vm, unit.code, unit.consts, unit.functions), unit,
                At(unit.code, vm.ip), At(unit.code, vm.ip + 1))

\* factorial, two calls deep, is at its second statement, where JUMP_IF_FALSE landed, with
\* one value below the body: the n of the caller's n * fact(n - 1)
C28_Witness ==
  /\ phase = "running"
  /\ prog = <<"fact", 3>>
  /\ Running(vm)
  /\ Len(vm.callStack) = 2
  /\ Len(vm.S) = 1
  /\ vm.S[1] = Num(3)
  /\ \E j \in 0..(Len(unit.code) - 2) :
        At(unit.code, j) = JUMP_IF_FALSE /\ At(unit.code, j + 1) = vm.ip

\* the number of environments on the parent chain of e, e included
RECURSIVE ChainLen(_, _)
ChainLen(envs, e) == IF e = 0 THEN 0 ELSE 1 + ChainLen(envs, envs[e].parent)

\* C29: the parent chain of the current environment and of the saved environment of every
\* frame has at most (call-stack depth + 1) environments.
C29_ChainWithinCalls ==
  (phase = "running" /\ prog[1] # "raw")
    => /\ ChainLen(vm.envs, vm.env) <= Len(vm.callStack) + 1
       /\ \A i \in 1..Len(vm.callStack) :
            ChainLen(vm.envs, vm.callStack[i].savedEnv) <= Len(vm.callStack) + 1

\* the number of function bodies of u around offset i
Nesting(u, i) ==
  Cardinality({k \in 1..Len(u.functions) : InBody(u.code, u.functions[k], i)})

\* C29, amended: the parent chain of the current environment has at most (d + 1)
\* environments, d the number of function bodies around the instruction at ip, and that of
\* the saved environment of a frame at most (d + 1) for the d of its return offset.
C29_ChainWithinNesting ==
  (phase = "running" /\ prog[1] # "raw")
    => /\ ChainLen(vm.envs, vm.env) <= Nesting(unit, vm.ip) + 1
       /\ \A i \in 1..Len(vm.callStack) :
            ChainLen(vm.envs, vm.callStack[i].savedEnv)
              <= Nesting(unit, vm.callStack[i].retIp) + 1

\* the closure get, made inside mk and returned by it, runs called from the top level: one
\* frame, and three environments on the chain
C29_Witness ==
  /\ phase = "running"
  /\ prog = <<"shared", 0>>
  /\ Running(vm)
  /\ Len(vm.callStack) = 1
  /\ ChainLen(vm.envs, vm.env) = 3
  /\ Nesting(unit, vm.ip) = 2

\* the values C26 lets JUMP_IF_FALSE jump on: false, 0, undefined, the empty string
JumpsOn(v) ==
  \/ (v.t = "bool" /\ ~v.b)
  \/ (v.t = "num" /\ v.n = 0)
  \/ v.t = "undef"
  \/ (v.t = "str" /\ v.s = <<>>)

\* a JUMP_IF_FALSE target with a value on the stack: the step from m to m2
CondJump(m, m2, op, target) ==
  (Running(m) /\ op = JUMP_IF_FALSE /\ m.S # <<>>)
    => /\ m2.S = SubSeq(m.S, 1, Len(m.S) - 1)
       /\ JumpsOn(m.S[Len(m.S)]) => m2.ip = target
       /\ ~JumpsOn(m.S[Len(m.S)]) => m2.ip = m.ip + 2

\* the values on which !cond holds: those of JumpsOn and NaN
Falsy(v) == JumpsOn(v) \/ v.t = "nan"

CondJumpFalsy(m, m2, op, target) ==
  (Running(m) /\ op = JUMP_IF_FALSE /\ m.S # <<>>)
    => /\ m2.S = SubSeq(m.S, 1, Len(m.S) - 1)
       /\ Falsy(m.S[Len(m.S)]) => m2.ip = target
       /\ ~Falsy(m.S[Len(m.S)]) => m2.ip = m.ip + 2

\* C26, amended: JUMP_IF_FALSE pops one value and goes to its target exactly when the
\* value is false, 0, NaN, undefined or the empty string; on every other value it falls
\* through to the next instruction.
C26_JumpIfFalsy ==
  [][ (phase = "running")
        => CondJumpFalsy(vm, vm', At(unit.code, vm.ip), At(unit.code, vm.ip + 1)) ]_vars

\* 0/0 has been tested by JUMP_IF_FALSE and the run is at the target, the stack empty
C26_Witness ==
  /\ phase = "running"
  /\ prog = <<"raw", 0>>
  /\ Len(unit.code) >= 7
  /\ SubSeq(unit.code, 1, 7) = <<PUSH_CONST, 0, PUSH_CONST, 0, DIV, JUMP_IF_FALSE, 10>>
  /\ vm.ip = 10
  /\ vm.S = <<>>
  /\ vm.out = <<>>

\* C26: JUMP_IF_FALSE pops one value and goes to its target exactly when the value is
\* false, 0, undefined or the empty string; on every other value, NaN among them, it falls
\* through.
C26_JumpIfFalse ==
  [][ (phase = "running")
        => CondJump(vm, vm', At(unit.code, vm.ip), At(unit.code, vm.ip + 1)) ]_vars

\* offset j holds the JUMP_IF_FALSE of a while: its target comes right after a JUMP that
\* goes back to an offset before j, the first instruction of the condition
WhileJump(code, j) ==
  /\ At(code, j) = JUMP_IF_FALSE
  /\ At(code, At(code, j + 1) - 2) = JUMP
  /\ At(code, At(code, j + 1) - 1) < j

\* offset i is the first instruction of the body of a while
BodyStart(code, i) == WhileJump(code, i - 2)

\* offset i holds the JUMP that ends the body of the while tested at some offset j
BackJump(code, i) ==
  /\ At(code, i) = JUMP
  /\ \E j \in 0..i : WhileJump(code, j) /\ At(code, j + 1) = i + 2

\* one instruction of a loop, from m to m2: the test enters the body when the condition is
\* truthy and leaves to the instruction after the back-jump when it is not, the body is
\* entered from the test alone, and the back-jump returns to the condition
WhileStep(m, m2, code) ==
  /\ (WhileJump(code, m.ip) /\ m.S # <<>> /\ ~Falsy(m.S[Len(m.S)])) => m2.ip = m.ip + 2
  /\ (WhileJump(code, m.ip) /\ m.S # <<>> /\ Falsy(m.S[Len(m.S)]))
       => m2.ip = At(code, m.ip + 1)
  /\ (Running(m2) /\ BodyStart(code, m2.ip)) => m.ip = m2.ip - 2
  /\ BackJump(code, m.ip) => (m2.ip = At(code, m.ip + 1) /\ m2.S = m.S /\ m2.out = m.out)

\* the run of let i=0; while (i<3) { print(i); let i=i+1; } from m comes to its HALT having
\* printed 0, 1, 2
ThreeTimes(m, u) ==
  LET r == runToDepth(m, u, 0 - 1, MaxRun) IN
  /\ r.status = "halted"
  /\ r.out = <<Num(0), Num(1), Num(2)>>

bodyNext(s, m2, op, depth, entry, end) ==
  [m |-> m2,
   ok |-> s.ok /\ (Len(s.m.callStack) = depth
                     => /\ entry <= s.m.ip /\ s.m.ip < end
                        /\ (s.m.ip = end - 1 /\ Running(m2))
                             => (op = RET /\ m2.S # <<>> /\ m2.S[Len(m2.S)] = UndefV))]

\* the run from s.m until the body entered at call depth `depth` is left, at most n
\* instructions, by halves
RECURSIVE bodyRun(_, _, _, _, _, _)
bodyRun(s, u, depth, entry, end, n) ==
  IF n = 0 \/ ~Running(s.m) \/ Len(s.m.callStack) < depth THEN s
  ELSE IF n = 1
    THEN bodyNext(s, StepVM(s.m, u.code, u.consts, u.functions), At(u.code, s.m.ip), depth,
                  entry, end)
  ELSE bodyRun(bodyRun(s, u, depth, entry, end, n \div 2), u, depth, entry, end,
               n - (n \div 2))

\* m1 is m after its CALL of a closure: the run of the body stays in the body and, having
\* finished, has resumed the caller after the CALL
BodyReturns(m, m1, u) ==
  LET r == bodyRun([m |-> m1, ok |-> TRUE], u, Len(m1.callStack), m1.ip,
                   At(u.code, m1.ip - 1), MaxRun)
  IN /\ r.ok
     /\ (Running(r.m) /\ Len(r.m.callStack) < Len(m1.callStack))
          => (r.m.ip = m.ip + 2 /\ r.m.callStack = m.callStack)

\* C31: every closure call whose body finishes returns to its caller; a body that ends
\* without an explicit return reaches the synthesized PUSH_CONST undefined; RET, the caller
\* receives undefined, and execution never runs past the end of the body.
C31_BodyEndsInRet ==
  (phase = "running" /\ prog[1] # "raw" /\ ClosureCall(vm, unit.code))
    => BodyReturns(vm, StepVM(vm, unit.code, unit.consts, unit.functions), unit)

\* f(0) has printed 0, run off the end of its block into the synthesized RET and come back
\* to the top level with undefined
C31_Witness ==
  /\ phase = "running"
  /\ prog = <<"noreturn", 0>>
  /\ Running(vm)
  /\ vm.callStack = <<>>
  /\ vm.out = <<Num(0)>>
  /\ vm.S = <<UndefV>>
  /\ At(unit.code, vm.ip - 2) = CALL
  /\ At(unit.code, unit.functions[1].entry - 1) - 1 \in DOMAIN unit.code
  /\ At(unit.code, At(unit.code, unit.functions[1].entry - 1) - 1) = RET

\* the name of the i-th parameter of callee: the text of the constant at paramsIdx[i]
ParamName(consts, callee, i) == consts[callee.paramsIdx[i] + 1].s

\* m1 is m after its CALL argc of the closure callee, the i-th argument being the i-th of
\* the argc values pushed after the callee: the new environment hangs under the captured
\* one and binds the parameters, each to its argument (the later of two parameters of one
\* name), and nothing else; the environments of m are as they were
ArgsBound(m, m1, consts, callee, argc) ==
  /\ m1.env \notin DOMAIN m.envs
  /\ DOMAIN m1.envs = DOMAIN m.envs \cup {m1.env}
  /\ m1.envs[m1.env].parent = callee.closEnv
  /\ DOMAIN m1.envs[m1.env].vars = {ParamName(consts, callee, i) : i \in 1..argc}
  /\ \A i \in 1..argc :
       (\A j \in (i + 1)..argc : ParamName(consts, callee, j) # ParamName(consts, callee, i))
         => m1.envs[m1.env].vars[ParamName(consts, callee, i)] = m.S[Len(m.S) - argc + i]
  /\ \A e \in DOMAIN m.envs : m1.envs[e] = m.envs[e]

\* C32: CALL n of a closure takes the arguments in push order and binds the i-th parameter
\* name, resolved through the constant pool, to the i-th argument in a new environment
\* whose parent is the captured environment; the caller's environment gets no binding.
C32_ArgumentsBound ==
  [][ (phase = "running" /\ prog[1] # "raw" /\ ClosureCall(vm, unit.code))
        => ArgsBound(vm, vm', unit.consts,
                     vm.S[Len(vm.S) - At(unit.code, vm.ip + 1)], At(unit.code, vm.ip + 1)) ]_vars

\* sub(5, a) has just been entered with a = 7 in the global environment: a is 5 and b is 7
\* in the new environment, a is still 7 in the global one
C32_Witness ==
  /\ phase = "running"
  /\ prog = <<"twoargs", 0>>
  /\ Len(vm.callStack) = 1
  /\ vm.ip = unit.functions[1].entry
  /\ vm.env # 1
  /\ vm.envs[vm.env].parent = 1
  /\ vm.envs[vm.env].vars[<<"a">>] = Num(5)
  /\ vm.envs[vm.env].vars[<<"b">>] = Num(7)
  /\ vm.envs[1].vars[<<"a">>] = Num(7)
  /\ <<"b">> \notin DOMAIN vm.envs[1].vars

\* the instruction runVMHardened fetches at offset p of the image d is the one of the
\* logical code: its opcode through the inverse map, its immediate through the mask at
\* the offset of the immediate
FetchedAs(d, code, p) ==
  /\ InvGet(d.inv, At(d.code, p)) = At(code, p)
  /\ HasImmediate(At(code, p)) => readImm1(d.code, d.seed, p + 1) = At(code, p + 1)

\* every instruction with an immediate of the logical code is read back from the coded
\* array as it was: opcode through the inverse of phys, immediate through the mask
InvertsAll(code, places, phys, coded, seed) ==
  \A p \in places :
    /\ InvGet(phys, At(coded, p)) = At(code, p)
    /\ readImm1(coded, seed, p + 1) = At(code, p + 1)

\* C33: streaming decode inverts the protection transform, for every logical code stream,
\* opcode permutation and seed (seeds from 2^31 on included): each opcode runVMHardened
\* fetches maps back to the logical opcode at its offset, and each immediate read at an
\* offset is the original immediate there.
C33_StreamingDecodeInverts ==
  /\ (phase = "hrunning" /\ tampered.kind = "none" /\ Running(hvm))
       => FetchedAs(dec, unit.code, hvm.ip)
  /\ (phase = "protected" /\ tampered.kind = "none")
       => InvertsAll(unit.code, ImmediatePlaces(unit.code), makeOpcodeMap(packed.draws),
                     CodedBytes(unit.code, makeOpcodeMap(packed.draws), packed.seed),
                     packed.seed)

\* phys is a bijection from the logical opcodes onto 1..K, K their number, which inv
\* inverts: phys[i] is the byte of LOGICAL_OPS[i]
Bijection(phys) ==
  /\ Len(phys) = Len(LOGICAL_OPS)
  /\ \A i \in 1..Len(phys) : phys[i] \in 1..Len(LOGICAL_OPS)
  /\ \A i, j \in 1..Len(phys) : phys[i] = phys[j] => i = j
  /\ \A b \in 1..Len(LOGICAL_OPS) : \E i \in 1..Len(phys) : phys[i] = b
  /\ \A i \in 1..Len(LOGICAL_OPS) : InvGet(phys, MapOp(phys, LOGICAL_OPS[i])) = LOGICAL_OPS[i]

\* C34: makeOpcodeMap yields a bijection between the K logical opcodes and the bytes 1..K:
\* no byte is shared, none is 0 or above K, and inv(map(op)) = op for every opcode.
C34_MapIsBijection == (physBytes # <<>>) => Bijection(physBytes)

\* a map that leaves no opcode where the identity has it
C34_Witness ==
  /\ physBytes # <<>>
  /\ \A i \in 1..Len(physBytes) : physBytes[i] # i

\* m2 is m stopped by the error msg, its stacks, environments and output as they were
StoppedBy(m, m2, msg) ==
  /\ m2.status = "error"
  /\ m2.err = msg
  /\ m2.S = m.S
  /\ m2.callStack = m.callStack
  /\ m2.envs = m.envs
  /\ m2.env = m.env
  /\ m2.out = m.out

IsLogical(op) == \E i \in 1..Len(LOGICAL_OPS) : LOGICAL_OPS[i] = op

InMap(inv, b) == \E i \in 1..Len(inv) : inv[i] = b

\* C35: a fetch of a byte that is no opcode is an error and nothing else: runVM throws
\* 'Bad opcode <op>' for a byte that is no logical opcode, past the end of the code
\* included, runVMHardened throws 'Unknown physical opcode: <b> at position <p>' for a
\* byte at offset p that the map of the image does not hold, 0 included; data stack, call
\* stack and environments stay as they were.
C35_BadOpcodeFails ==
  [][ /\ (phase = "running" /\ Running(vm) /\ ~IsLogical(At(unit.code, vm.ip)))
           => StoppedBy(vm, vm', "Bad opcode " \o NumText(At(unit.code, vm.ip)))
      /\ (phase = "hrunning" /\ Running(hvm) /\ ~InMap(dec.inv, At(dec.code, hvm.ip)))
           => StoppedBy(hvm, hvm',
                        "Unknown physical opcode: " \o NumText(At(dec.code, hvm.ip))
                        \o " at position " \o NumText(hvm.ip)) ]_vars

\* runVMHardened has fetched the byte 0 of an image and stopped
C35_Witness ==
  /\ phase = "hrunning"
  /\ prog = <<"raw", 0>>
  /\ hvm.status = "error"
  /\ At(dec.code, hvm.ip - 1) = 0
  /\ hvm.err = "Unknown physical opcode: 0 at position " \o NumText(hvm.ip - 1)

\* m is an execution at its start over the builtins map b: one environment, without
\* parent, binding exactly the keys of b, each to the host function of the map
FreshGlobal(m, b) ==
  /\ m.env = 1
  /\ Len(m.envs) = 1
  /\ m.envs[1].parent = 0
  /\ DOMAIN m.envs[1].vars = {b[i] : i \in 1..Len(b)}
  /\ \A i \in 1..Len(b) : m.envs[1].vars[b[i]] = HostV(b[i])
  /\ m.S = <<>> /\ m.callStack = <<>> /\ m.out = <<>>

\* C36: each execution owns a new global environment into which the builtins are copied
\* at its start; the stores of a program, one over the name of a builtin included, change
\* the global environment of that execution alone; the builtins map of the caller is
\* unchanged, and a later execution with the same map starts from the original builtins
\* and none of the variables of the earlier run.
C36_FreshGlobalPerRun ==
  [][ /\ builtins' = builtins
      /\ (phase = "compiled" /\ phase' = "running") => FreshGlobal(vm', builtins)
      /\ (phase = "protected" /\ phase' = "hrunning") => FreshGlobal(hvm', builtins)
      /\ (phase = "running") => hvm' = hvm
      /\ (phase = "hrunning") => vm' = vm ]_vars

\* runVM has run print(max(1, 2)); let max = 5; let v = 7; print(max); to its end, and the
\* later execution of the protected image, given the same map, has max as the host
\* function again, has called it, and is at the store over it: no v, and the earlier run
\* keeps its own max and v
C36_Witness ==
  /\ phase = "hrunning"
  /\ prog = <<"redefine", 0>>
  /\ vm.status = "halted"
  /\ vm.envs[1].vars[<<"m","a","x">>] = Num(5)
  /\ vm.envs[1].vars[<<"v">>] = Num(7)
  /\ Running(hvm)
  /\ hvm.out = <<Num(2)>>
  /\ hvm.envs[1].vars[<<"m","a","x">>] = HostV(<<"m","a","x">>)
  /\ <<"v">> \notin DOMAIN hvm.envs[1].vars
  /\ builtins = HostNames

\* one instruction from m to m2: an environment is made by the CALL of a closure and by
\* nothing else, the environments there are keep their parents, the current environment
\* changes at CALL and RET only, and the top level runs in the global environment
ScopesByCall(m, m2, code) ==
  /\ Len(m2.envs) >= Len(m.envs)
  /\ Len(m2.envs) # Len(m.envs) => (ClosureCall(m, code) /\ Len(m2.envs) = Len(m.envs) + 1)
  /\ \A e \in 1..Len(m.envs) : m2.envs[e].parent = m.envs[e].parent
  /\ m2.env # m.env => At(code, m.ip) \in {CALL, RET}
  /\ m.callStack = <<>> => m.env = 1

\* the run of the program of blocks from m prints the a and b of the top-level block, the d
\* of the top-level branch and the c of the branch inside f, bound in the global
\* environment but for c
BlocksVisible(m, u) ==
  LET r == runToDepth(m, u, 0 - 1, MaxRun) IN
  /\ r.status = "halted"
  /\ r.out = <<Num(2), Num(3), Num(6), Num(4)>>
  /\ DOMAIN r.envs[1].vars
       = {HostNames[i] : i \in 1..Len(HostNames)} \cup {<<"a">>, <<"b">>, <<"d">>, <<"f">>}

\* C37: environments are created by closure calls only: a block, a branch of if/else and
\* the body of a while open no scope, so a let inside a block at top level writes the
\* global environment, a let inside a block of a function body writes the environment of
\* the activation, and both stay visible after the block.
C37_BlocksOpenNoScope ==
  [][ (phase = "running" /\ prog[1] # "raw" /\ Running(vm))
        => /\ ScopesByCall(vm, vm', unit.code)
           /\ (prog[1] = "blocks") => BlocksVisible(vm, unit) ]_vars

\* f is past its branch and about to return c, which the let of the branch bound in the
\* environment of the activation; a, b and d are in the global environment
C37_Witness ==
  /\ phase = "running"
  /\ prog = <<"blocks", 0>>
  /\ Running(vm)
  /\ Len(vm.callStack) = 1
  /\ Len(vm.envs) = 2
  /\ vm.env = 2
  /\ At(unit.code, vm.ip) = RET
  /\ vm.S = <<Num(4)>>
  /\ vm.envs[2].vars[<<"c">>] = Num(4)
  /\ vm.envs[1].vars[<<"a">>] = Num(2)
  /\ vm.envs[1].vars[<<"b">>] = Num(3)
  /\ vm.envs[1].vars[<<"d">>] = Num(6)

\* the greatest number of function bodies around the entry of a function of u, the entry
\* being inside its own body: the deepest nesting of function declarations, 0 without any
MaxNesting(u) ==
  IF u.functions = <<>> THEN 0
  ELSE LET depths == {Nesting(u, u.functions[k].entry) : k \in 1..Len(u.functions)}
       IN CHOOSE d \in depths : \A x \in depths : x <= d

\* every environment but the global one has for parent an environment made before it
ParentsEarlier(envs) ==
  /\ envs[1].parent = 0
  /\ \A e \in 2..Len(envs) : envs[e].parent \in 1..(e - 1)

\* C38: in every run of a compiled program the parent links of the environments have no
\* cycle and the parent chain of the current environment is never longer than 1 + the
\* deepest nesting of function declarations, however deep the call stack.
C38_ChainBoundedByNesting ==
  (phase = "running" /\ prog[1] # "raw")
    => /\ ParentsEarlier(vm.envs)
       /\ ChainLen(vm.envs, vm.env) <= 1 + MaxNesting(unit)

\* factorial three calls deep: four environments, and a chain of two
C38_Witness ==
  /\ phase = "running"
  /\ prog = <<"fact", 3>>
  /\ Running(vm)
  /\ Len(vm.callStack) = 3
  /\ Len(vm.envs) = 4
  /\ MaxNesting(unit) = 1
  /\ ChainLen(vm.envs, vm.env) = 2

\* the 0-based offsets of the opcode bytes of a code array: one instruction taken at r.i,
\* on [i, at]
startStep(code, r) ==
  [i |-> IF HasImmediate(code[r.i + 1]) THEN r.i + 2 ELSE r.i + 1, at |-> r.at \cup {r.i}]

RECURSIVE startLoop(_, _, _)
startLoop(code, r, n) ==
  IF n = 0 \/ r.i >= Len(code) THEN r
  ELSE IF n = 1 THEN startStep(code, r)
  ELSE startLoop(code, startLoop(code, r, n \div 2), n - (n \div 2))

Starts(code) == startLoop(code, [i |-> 0, at |-> {}], Len(code)).at

\* the immediate of every JUMP and JUMP_IF_FALSE of the code of u and the entry of every
\* function of u is the offset of an opcode byte, `starts` being these offsets; a jump to
\* an offset not after its own is the back-jump of a while and no placeholder
LandsOnOpcodes(u, starts) ==
  /\ \A i \in starts :
       /\ At(u.code, i) \in {JUMP, JUMP_IF_FALSE} => At(u.code, i + 1) \in starts
       /\ At(u.code, i) = JUMP_IF_FALSE => At(u.code, i + 1) > i
       /\ At(u.code, i) = JUMP => (At(u.code, i + 1) > i \/ BackJump(u.code, i))
  /\ \A k \in 1..Len(u.functions) : u.functions[k].entry \in starts

\* C39: in every code array compile returns, the immediate of every JUMP and
\* JUMP_IF_FALSE and the entry of every function descriptor is the offset of an opcode byte
\* of that array: no immediate byte, no -1, no placeholder left unpatched, nothing at or
\* past the length of the code.
C39_JumpsLandOnOpcodes ==
  (phase # "source" /\ prog[1] # "raw" /\ unit.ok) => LandsOnOpcodes(unit, Starts(unit.code))

\* the compiled program of blocks: a JUMP_IF_FALSE, the JUMP over the body of f, and the
\* entry of f right after that JUMP
C39_Witness ==
  /\ phase = "compiled"
  /\ prog = <<"blocks", 0>>
  /\ unit.ok
  /\ Len(unit.functions) = 1
  /\ At(unit.code, unit.functions[1].entry - 2) = JUMP
  /\ unit.functions[1].entry - 2 \in Starts(unit.code)
  /\ \E i \in Starts(unit.code) : At(unit.code, i) = JUMP_IF_FALSE

\* C40: simpleMAC is injective in a single position: two byte sequences of one length that
\* differ in exactly one byte have different tags.
C40_MacInjectiveInOnePlace == (macCall.n > 0) => macCall.tag # macCall.tagAt

\* two sequences of two bytes whose first bytes differ in their top bit alone
C40_Witness ==
  /\ macCall.n > 0
  /\ Len(macCall.bytes) = 2
  /\ macCall.at = 1
  /\ macCall.bytes[1] = 255
  /\ macCall.byte = 127
  /\ Len(macCall.tag) = 4
  /\ Len(macCall.tagAt) = 4

\* C10: compile returns no code longer than 255 bytes and no code holding a value that
\* does not fit in one byte.
C10_RejectsOversize ==
  (phase = "compiled")
    => /\ Len(unit.code) <= 255
       /\ \A i \in 1..Len(unit.code) : unit.code[i] <= 255

====
